---- MODULE Spec2Model ----
(***************************************************************************)
(* A model of the Wasynth translation core: the operand-stack simulator    *)
(* (wasm-ast/src/stack.rs), the branch-table condenser and the scope       *)
(* emitter (codegen-luajit/src/gen.rs) and the operator tables             *)
(* (codegen/luau/src/analyzer/into_string.rs).                             *)
(***************************************************************************)
EXTENDS Integers, Sequences, FiniteSets, TLC

VARIABLES
    scopes,     \* the open Stacks of the function being built, outermost first
    op,         \* the last Stack operation: its name, arguments and return value
    last_set,   \* the last SetTemporary statement a leak_at returned, <<>> if none
    v,          \* the Visitor of the function being emitted
    text,       \* what has been written to the Writer, one token per element
    frames,     \* the visit calls in progress, outermost first
    info,       \* per label, the kind of scope that allocated it and where it starts
    br_table,   \* a branch table
    dflt,       \* its default target
    ranges,     \* what condense_jump_table returned for it
    phase,      \* "emit" while the function is written, "run" while it executes
    pc,         \* the token the emitted function is at
    passes,     \* per label of a loop, the times its body was entered
    jumps,      \* per label, the branches taken to it
    jumped,     \* the label a branch was just taken to, else -1
    sel,        \* the operator looked up in the operator tables and its name
    wasm,       \* the module, or the constant expression, handed to the translator
    sink,       \* the output sink: the writes it took and the write it rejects
    outcome,    \* how the translation ended, "" while it has not
    trace       \* what the translated module did when it was run

stackVars == <<scopes, op, last_set>>

emitVars == <<v, text, frames, info>>

tableVars == <<br_table, dflt, ranges>>

runVars == <<phase, pc, passes, jumps, jumped>>

moduleVars == <<wasm, sink, outcome, trace>>

vars == <<stackVars, emitVars, tableVars, runVars, sel, moduleVars>>

(***************************************************************************)
(* Bounds of the stack model.                                              *)
(***************************************************************************)
MaxSlots == 3       \* live slots over all open scopes
MaxScopes == 3      \* open scopes, the function's root included
MaxNodes == 4       \* expression nodes over all live slots
NumValues == 1
NumLocals == 1
NumGlobals == 1
NumMemories == 2

Max(a, b) == IF a >= b THEN a ELSE b

(***************************************************************************)
(* ReadType, Expression, Statement, Slot.                                  *)
(***************************************************************************)
Local(i) == [t |-> "Local", i |-> i]
Global(i) == [t |-> "Global", i |-> i]
Memory(i) == [t |-> "Memory", i |-> i]

Value(n) == [k |-> "Value", n |-> n, sub |-> <<>>]
GetLocal(var) == [k |-> "GetLocal", n |-> var, sub |-> <<>>]
GetGlobal(var) == [k |-> "GetGlobal", n |-> var, sub |-> <<>>]
GetTemporary(var) == [k |-> "GetTemporary", n |-> var, sub |-> <<>>]
LoadAt(memory, pointer) == [k |-> "LoadAt", n |-> memory, sub |-> <<pointer>>]
BinOp(lhs, rhs) == [k |-> "BinOp", n |-> 0, sub |-> <<lhs, rhs>>]

SetTemporary(var, value) == [k |-> "SetTemporary", var |-> var, value |-> value]

Slot(read, data) == [read |-> read, data |-> data]

\* Slot::is_temporary
is_temporary(slot, id) == slot.data.k = "GetTemporary" /\ slot.data.n = id

\* Stack::default
DefaultStack == [var_list |-> <<>>, capacity |-> 0, previous |-> 0]

\* Stack::len
len(self) == Len(self.var_list)

split_last_len(self, n) ==
    LET desired == len(self) - n
    IN  [parent |-> [self EXCEPT !.var_list = SubSeq(self.var_list, 1, desired)],
         child |-> [var_list |-> SubSeq(self.var_list, desired + 1, len(self)),
                    capacity |-> self.capacity,
                    previous |-> self.previous + n]]

\* Stack::split_last: the retained parent and the new Stack of the last `n` slots
split_last(self, n) ==
    LET desired == len(self) - n
    IN  [parent |-> [self EXCEPT !.var_list = SubSeq(self.var_list, 1, desired)],
         child |-> [var_list |-> SubSeq(self.var_list, desired + 1, len(self)),
                    capacity |-> self.capacity,
                    previous |-> self.previous + desired]]

\* Stack::push_with_read
push_with_read(self, data, read) ==
    [self EXCEPT !.var_list = Append(@, Slot(read, data))]

\* Stack::push
push(self, data) == push_with_read(self, data, {})

\* the hazard push_with_single derives from the expression
single_elem(data) ==
    CASE data.k = "GetLocal" -> Local(data.n)
      [] data.k = "GetGlobal" -> Global(data.n)
      [] data.k = "LoadAt" -> Memory(0)

\* Stack::push_with_single
push_with_single(self, data) ==
    [self EXCEPT !.var_list = Append(@, Slot({single_elem(data)}, data))]

\* Stack::pop_with_read: the popped slot and the remaining Stack
pop_with_read(self) ==
    [var |-> self.var_list[len(self)],
     self |-> [self EXCEPT !.var_list = SubSeq(@, 1, len(self) - 1)]]

\* Stack::push_temporary
push_temporary(self, num) ==
    LET base == len(self) + self.previous
    IN  [self EXCEPT
            !.var_list = @ \o [j \in 1..num |-> Slot({}, GetTemporary(base + j - 1))],
            !.capacity = Max(@, base + num)]

\* Stack::has_read_at (index counts from 0)
has_read_at(self, index, read) == read \in self.var_list[index + 1].read

get_br_alignment_local(self, par_start, par_result) ==
    [new |-> par_start,
     old |-> len(self) - par_result,
     length |-> par_result]

get_br_alignment_swapped(self, par_start, par_result) ==
    [new |-> len(self) + self.previous - par_result,
     old |-> par_start,
     length |-> par_result]

\* Stack::get_br_alignment
get_br_alignment(self, par_start, par_result) ==
    [new |-> par_start,
     old |-> len(self) + self.previous - par_result,
     length |-> par_result]

leak_at_always(self, index) ==
    LET old == self.var_list[index + 1]
        var == self.previous + index
    IN  [self |-> [self EXCEPT
                        !.var_list[index + 1] = Slot({}, GetTemporary(var)),
                        !.capacity = Max(@, var + 1)],
         ret |-> <<SetTemporary(var, old.data)>>]

leak_at_local(self, index) ==
    LET old == self.var_list[index + 1]
        var == index
    IN  IF is_temporary(old, var)
        THEN [self |-> self, ret |-> <<>>]
        ELSE [self |-> [self EXCEPT
                            !.var_list[index + 1] = Slot({}, GetTemporary(var)),
                            !.capacity = Max(@, var + 1)],
              ret |-> <<SetTemporary(var, old.data)>>]

leak_at_keep_capacity(self, index) ==
    LET old == self.var_list[index + 1]
        var == self.previous + index
    IN  IF is_temporary(old, var)
        THEN [self |-> self, ret |-> <<>>]
        ELSE [self |-> [self EXCEPT
                            !.var_list[index + 1] = Slot({}, GetTemporary(var))],
              ret |-> <<SetTemporary(var, old.data)>>]

\* Stack::leak_at (index counts from 0): the Stack afterwards and the
\* Option<Statement> returned, <<>> for None
leak_at(self, index) ==
    LET old == self.var_list[index + 1]
        var == self.previous + index
    IN  IF is_temporary(old, var)
        THEN [self |-> self, ret |-> <<>>]
        ELSE [self |-> [self EXCEPT
                            !.var_list[index + 1] = Slot({}, GetTemporary(var)),
                            !.capacity = Max(@, var + 1)],
              ret |-> <<SetTemporary(var, old.data)>>]

(***************************************************************************)
(* The emitter (gen.rs): branch tables, the Visitor and its labels.        *)
(***************************************************************************)
MaxTableLen == 6    \* entries of a branch table
MaxTarget == 2      \* the deepest branch depth a table names
MaxText == 8        \* tokens of an emitted function
MaxLabels == 3      \* labels allocated in a function
MaxJumps == 2       \* branches taken to one loop while it runs

RECURSIVE run_end(_, _)
\* the inner loop of condense_jump_table, entered after `index += 1`:
\* the index it breaks at (indices count from 0)
run_end(table, index) ==
    IF index = Len(table) \/ table[index] # table[index + 1]
    THEN index
    ELSE run_end(table, index + 1)

condense_push_index(start, index, dest) == <<start, index, dest>>

\* result.push((start, index - 1, list[start]))
condense_push(start, index, dest) == <<start, index - 1, dest>>

RECURSIVE condense_from(_, _, _)
\* the outer loop of condense_jump_table
condense_from(table, index, result) ==
    IF index < Len(table)
    THEN LET start == index
             stop == run_end(table, index + 1)
         IN  condense_from(table, stop,
                           Append(result, condense_push(start, stop, table[start + 1])))
    ELSE result

\* condense_jump_table
condense_jump_table(table) == condense_from(table, 0, <<>>)

\* one token written to the Writer
Tok(t, a, b) == [t |-> t, a |-> a, b |-> b]

\* Visitor::default
DefaultVisitor == [label_list |-> <<>>, num_label |-> 0, num_param |-> 0]

\* Visitor::push_label: the Visitor afterwards; the label returned is the
\* old num_label
push_label(vis) ==
    [vis EXCEPT !.label_list = Append(@, vis.num_label), !.num_label = @ + 1]

\* Visitor::pop_label
pop_label(vis) ==
    [vis EXCEPT !.label_list = SubSeq(@, 1, Len(@) - 1)]

write_br_at_front(up, vis) ==
    <<Tok("goto", vis.label_list[up + 1], 0)>>

\* write_br_at: label_list.iter().nth_back(up)
write_br_at(up, vis) ==
    <<Tok("goto", vis.label_list[Len(vis.label_list) - up], 0)>>

\* one guard of a branch table and its jump
br_table_guard(range, vis) ==
    <<IF range[1] = range[2]
      THEN Tok("if ==", range[1], range[1])
      ELSE Tok("if >= <=", range[1], range[2])>>
    \o write_br_at(range[3], vis)
    \o <<Tok("else", 0, 0)>>

RECURSIVE br_table_guards(_, _)
br_table_guards(rs, vis) ==
    IF rs = <<>> THEN <<>>
    ELSE br_table_guard(rs[1], vis) \o br_table_guards(Tail(rs), vis)

\* impl Driver for BrTable
br_table_visit(table, default, vis) ==
    <<Tok("temp =", 0, 0), Tok("cond", 0, 0), Tok(" ", 0, 0)>>
    \o br_table_guards(condense_jump_table(table), vis)
    \o <<Tok(" ", 0, 0)>>
    \o write_br_at(default, vis)
    \o <<Tok("end", 0, 0)>>

(***************************************************************************)
(* The parts of the state a specification leaves alone.                    *)
(***************************************************************************)
EmitIdle ==
    /\ v = DefaultVisitor
    /\ text = <<>>
    /\ frames = <<>>
    /\ info = <<>>

TableIdle ==
    /\ br_table = <<>>
    /\ dflt = 0
    /\ ranges = <<>>

\* the sink before any write; it rejects its fail_at-th write, none if 0
NewSink(fail_at) == [text |-> <<>>, attempts |-> 0, fail_at |-> fail_at]

\* io::Result of the writes so far and the sink after them
Done(s, res) == [sink |-> s, res |-> res]

\* one write!(w, ..)
write(s, tok) ==
    IF s.attempts + 1 = s.fail_at
    THEN Done([s EXCEPT !.attempts = @ + 1], "Err")
    ELSE Done([s EXCEPT !.attempts = @ + 1, !.text = Append(@, tok)], "Ok")

\* write!(w, ..)? after what came before: `?` returns the error at once
try(r, tok) == IF r.res # "Ok" THEN r ELSE write(r.sink, tok)

\* a run of writes whose Results are dropped: the rejected write is lost
\* and the writes after it happen
try_all_ignored(r, toks) ==
    LET s == r.sink
        k == s.fail_at - s.attempts
    IN  Done([s EXCEPT !.attempts = @ + Len(toks),
                       !.text = @ \o (IF k \in 1..Len(toks)
                                      THEN SubSeq(toks, 1, k - 1) \o SubSeq(toks, k + 1, Len(toks))
                                      ELSE toks)], "Ok")

\* a run of write!(w, ..)? over toks: the writes up to the one the sink
\* rejects, if it is among them, and its error
try_all(r, toks) ==
    IF r.res # "Ok" THEN r
    ELSE LET s == r.sink
             k == s.fail_at - s.attempts
         IN  IF k \in 1..Len(toks)
             THEN Done([s EXCEPT !.attempts = s.fail_at,
                                 !.text = @ \o SubSeq(toks, 1, k - 1)], "Err")
             ELSE Done([s EXCEPT !.attempts = @ + Len(toks),
                                 !.text = @ \o toks], "Ok")

\* where a routine reaches unimplemented!() instead of writing
Unimplemented == [t |-> "unimplemented!()", name |-> "", a |-> 0, b |-> 0]

\* unimplemented!(): the thread panics, nothing is returned
Panic(r) == Done(r.sink, "panic: not implemented")

\* the routine whose writes are toks, run on the sink: the writes before
\* the first unimplemented!() happen, each followed by ?
run(r, toks) ==
    LET reached == {i \in 1..Len(toks) : toks[i].t = Unimplemented.t}
        p == IF reached = {} THEN Len(toks) + 1
             ELSE CHOOSE i \in reached : \A j \in reached : i <= j
        done == try_all(r, SubSeq(toks, 1, p - 1))
    IN  IF p <= Len(toks) /\ done.res = "Ok" THEN Panic(done) ELSE done

\* what a loop writes: the width writes of entry(1), then those of
\* entry(2), up to entry(n)
Each(n, width, entry(_)) ==
    [q \in 1..n * width |-> entry(((q - 1) \div width) + 1)[((q - 1) % width) + 1]]

\* the first position of list whose kind is not wanted, Len(list) + 1 if none
FirstOther(list, wanted) ==
    IF \A i \in 1..Len(list) : list[i].kind = wanted THEN Len(list) + 1
    ELSE CHOOSE i \in 1..Len(list) :
             /\ list[i].kind # wanted
             /\ \A j \in 1..i - 1 : list[j].kind = wanted

ModuleIdle ==
    /\ wasm = <<>>
    /\ sink = NewSink(0)
    /\ outcome = ""
    /\ trace = <<>>

RunIdle ==
    /\ phase = "emit"
    /\ pc = 1
    /\ passes = [l \in 0..MaxLabels - 1 |-> 0]
    /\ jumps = [l \in 0..MaxLabels - 1 |-> 0]
    /\ jumped = -1

(***************************************************************************)
(* The Builder's use of the Stack: one action per instruction kind, acting *)
(* on the innermost open scope.                                            *)
(***************************************************************************)
Top == scopes[Len(scopes)]

SetTop(s) == [scopes EXCEPT ![Len(scopes)] = s]

RECURSIVE Size(_)
Size(e) ==
    IF e.sub = <<>> THEN 1
    ELSE IF Len(e.sub) = 1 THEN 1 + Size(e.sub[1])
    ELSE 1 + Size(e.sub[1]) + Size(e.sub[2])

RECURSIVE SlotNodes(_)
SlotNodes(list) ==
    IF list = <<>> THEN 0 ELSE Size(list[1].data) + SlotNodes(Tail(list))

RECURSIVE Flatten(_)
Flatten(ss) == IF ss = <<>> THEN <<>> ELSE ss[1].var_list \o Flatten(Tail(ss))

TotalSlots == Len(Flatten(scopes))

TotalNodes == SlotNodes(Flatten(scopes))

Op(name, a, b, ret) == [name |-> name, a |-> a, b |-> b, ret |-> ret]

\* the last statement of those just returned, else the one before
Latest(stmts) == IF stmts = <<>> THEN last_set ELSE <<stmts[Len(stmts)]>>

RoomFor(slots, nodes) ==
    /\ TotalSlots + slots <= MaxSlots
    /\ TotalNodes + nodes <= MaxNodes

\* a constant: push
BuildConst ==
    \E n \in 0..NumValues - 1 :
        /\ RoomFor(1, 1)
        /\ scopes' = SetTop(push(Top, Value(n)))
        /\ op' = Op("push", n, 0, <<>>)
        /\ UNCHANGED <<last_set, emitVars, tableVars, runVars, sel, moduleVars>>

\* local.get / global.get: push_with_single
BuildRead ==
    \E data \in {GetLocal(i) : i \in 0..NumLocals - 1}
                \cup {GetGlobal(i) : i \in 0..NumGlobals - 1} :
        /\ RoomFor(1, 1)
        /\ scopes' = SetTop(push_with_single(Top, data))
        /\ op' = Op("push_with_single", 0, 0, <<>>)
        /\ UNCHANGED <<last_set, emitVars, tableVars, runVars, sel, moduleVars>>

\* a load: the pointer is popped and the load pushed by push_with_single
BuildLoad ==
    \E memory \in 0..NumMemories - 1 :
        /\ len(Top) >= 1
        /\ RoomFor(0, 1)
        /\ LET p == pop_with_read(Top)
           IN  scopes' = SetTop(push_with_single(p.self, LoadAt(memory, p.var.data)))
        /\ op' = Op("push_with_single", memory, 0, <<>>)
        /\ UNCHANGED <<last_set, emitVars, tableVars, runVars, sel, moduleVars>>

\* a binary operation: both operands popped, the result pushed with the
\* union of their read sets
BuildBinOp ==
    /\ len(Top) >= 2
    /\ RoomFor(0, 1)
    /\ LET r == pop_with_read(Top)
           l == pop_with_read(r.self)
       IN  scopes' = SetTop(push_with_read(l.self, BinOp(l.var.data, r.var.data),
                                           l.var.read \cup r.var.read))
    /\ op' = Op("push_with_read", 0, 0, <<>>)
    /\ UNCHANGED <<last_set, emitVars, tableVars, runVars, sel, moduleVars>>

\* drop: pop
BuildDrop ==
    /\ len(Top) >= 1
    /\ scopes' = SetTop(pop_with_read(Top).self)
    /\ op' = Op("pop", 0, 0, <<>>)
    /\ UNCHANGED <<last_set, emitVars, tableVars, runVars, sel, moduleVars>>

LeakStep(index) ==
    LET r == leak_at(Top, index)
    IN  /\ scopes' = SetTop(r.self)
        /\ op' = Op("leak_at", index, 0, r.ret)

\* leak_at on any live slot of the innermost scope
LeakAt ==
    \E index \in 0..len(Top) - 1 :
        /\ LeakStep(index)
        /\ UNCHANGED <<last_set, emitVars, tableVars, runVars, sel, moduleVars>>

\* the same, the statement returned kept in last_set
LeakAtLogged ==
    \E index \in 0..len(Top) - 1 :
        /\ LeakStep(index)
        /\ last_set' = Latest(leak_at(Top, index).ret)
        /\ UNCHANGED <<emitVars, tableVars, runVars, sel, moduleVars>>

RECURSIVE LeakReaders(_, _, _)
\* leak every slot from `index` on that has_read_at finds to read `cell`
LeakReaders(self, cell, index) ==
    IF index >= len(self) THEN [self |-> self, ret |-> <<>>]
    ELSE IF has_read_at(self, index, cell)
    THEN LET r == leak_at(self, index)
             rest == LeakReaders(r.self, cell, index + 1)
         IN  [self |-> rest.self, ret |-> r.ret \o rest.ret]
    ELSE LeakReaders(self, cell, index + 1)

Cells ==
    {Local(i) : i \in 0..NumLocals - 1}
    \cup {Global(i) : i \in 0..NumGlobals - 1}
    \cup {Memory(i) : i \in 0..NumMemories - 1}

CellId(c) == IF c.t = "Local" THEN 0 ELSE IF c.t = "Global" THEN 1 ELSE 2

\* a write to a cell: the value is popped, the slots has_read_at finds are
\* leaked, then the write statement is emitted
BuildWrite ==
    \E cell \in Cells :
        /\ len(Top) >= 1
        /\ LET r == LeakReaders(pop_with_read(Top).self, cell, 0)
           IN  /\ scopes' = SetTop(r.self)
               /\ op' = Op("write", CellId(cell), cell.i, r.ret)
               /\ UNCHANGED <<last_set, emitVars, tableVars, runVars, sel, moduleVars>>

\* block / loop / if: split_last opens the nested scope
BuildBlock ==
    \E n \in 0..len(Top) :
        /\ Len(scopes) < MaxScopes
        /\ LET r == split_last(Top, n)
           IN  scopes' = Append(SetTop(r.parent), r.child)
        /\ op' = Op("split_last", n, 0, <<>>)
        /\ UNCHANGED <<last_set, emitVars, tableVars, runVars, sel, moduleVars>>

\* end: the innermost scope is discarded and its results become temporaries
\* of the parent
BuildEnd ==
    \E results \in 0..MaxSlots :
        /\ Len(scopes) > 1
        /\ TotalSlots - len(Top) + results <= MaxSlots
        /\ LET outer == SubSeq(scopes, 1, Len(scopes) - 1)
               parent == outer[Len(outer)]
               merged == [parent EXCEPT !.capacity = Max(@, Top.capacity)]
           IN  scopes' = [outer EXCEPT ![Len(outer)] = push_temporary(merged, results)]
        /\ op' = Op("push_temporary", results, 0, <<>>)
        /\ UNCHANGED <<last_set, emitVars, tableVars, runVars, sel, moduleVars>>

\* br: the alignment against the scope `depth` levels out
BuildBr ==
    \E depth \in 0..Len(scopes) - 1, result \in 0..len(Top) :
        LET target == scopes[Len(scopes) - depth]
        IN  /\ op' = Op("get_br_alignment", target.previous, result,
                        <<get_br_alignment(Top, target.previous, result)>>)
            /\ UNCHANGED <<scopes, last_set, emitVars, tableVars, runVars, sel, moduleVars>>

\* Stack::default, nothing done yet
StackIdle ==
    /\ scopes = <<DefaultStack>>
    /\ op = Op("new", 0, 0, <<>>)
    /\ last_set = <<>>

StackInit ==
    /\ StackIdle
    /\ EmitIdle
    /\ TableIdle
    /\ RunIdle
    /\ sel = <<>>
    /\ ModuleIdle

\* the hazard analysis: expressions are built, read and written in one scope
HazardNext ==
    \/ BuildConst
    \/ BuildRead
    \/ BuildLoad
    \/ BuildBinOp
    \/ BuildDrop
    \/ LeakAt
    \/ BuildWrite

SpecHazard == StackInit /\ [][HazardNext]_vars

\* the scope arithmetic: plain values pushed, leaked and carried over nested scopes
ScopeNext ==
    \/ BuildConst
    \/ BuildDrop
    \/ LeakAt
    \/ BuildBlock
    \/ BuildEnd
    \/ BuildBr

SpecScopes == StackInit /\ [][ScopeNext]_vars

\* the same without branches
LeakNext ==
    \/ BuildConst
    \/ BuildDrop
    \/ LeakAt
    \/ BuildBlock
    \/ BuildEnd

SpecLeak == StackInit /\ [][LeakNext]_vars

\* values pushed, combined, popped and leaked over nested scopes, the
\* statements leak_at returns recorded
TempsNext ==
    \/ BuildConst
    \/ BuildBinOp
    \/ BuildDrop
    \/ LeakAtLogged
    \/ BuildBlock
    \/ BuildEnd

SpecTemps == StackInit /\ [][TempsNext]_vars

(***************************************************************************)
(* Properties of the Stack.                                                *)
(***************************************************************************)
RECURSIVE Reads(_)
\* the cells an expression transitively depends on
Reads(e) ==
    CASE e.k = "GetLocal" -> {Local(e.n)}
      [] e.k = "GetGlobal" -> {Global(e.n)}
      [] e.k = "LoadAt" -> {Memory(e.n)} \cup Reads(e.sub[1])
      [] e.k = "BinOp" -> Reads(e.sub[1]) \cup Reads(e.sub[2])
      [] OTHER -> {}

\* the cell a read expression reads at its own index
OwnCell(e) ==
    CASE e.k = "GetLocal" -> Local(e.n)
      [] e.k = "GetGlobal" -> Global(e.n)
      [] e.k = "LoadAt" -> Memory(e.n)

\* the live slots below scope k, over the whole function
Below(ss, k) == Len(Flatten(SubSeq(ss, 1, k - 1)))

\* C1: before a write to a cell, has_read_at finds every live slot whose
\* expression reads the cell: every cell a live slot's expression depends on
\* is in the slot's read set, and once a write to a cell has been emitted no
\* live slot still holds an inlined read of that cell.
C1_HazardsFound ==
    /\ \A i \in 0..len(Top) - 1 :
           \A c \in Reads(Top.var_list[i + 1].data) : has_read_at(Top, i, c)
    /\ op.name = "write" =>
           \A i \in 0..len(Top) - 1 :
               \A c \in Reads(Top.var_list[i + 1].data) : CellId(c) # op.a \/ c.i # op.b

\* C2: get_br_alignment(start, result_arity) returns length = result_arity,
\* destination = start and source = previous + len - result_arity, which is
\* the function-wide index of the lowest of the top result_arity slots.
C2_BrAlignment ==
    op.name = "get_br_alignment" =>
        LET al == op.ret[1]
        IN  /\ al.length = op.b
            /\ al.new = op.a
            /\ al.old = Top.previous + len(Top) - op.b
            /\ al.old = TotalSlots - op.b

C2_Witness ==
    /\ op.name = "get_br_alignment"
    /\ Len(scopes) = 3
    /\ op.b >= 1
    /\ Top.previous >= 1
    /\ op.a < Top.previous

\* C3: leak_at on a slot that already holds the bare read of its own
\* temporary (previous + index) returns no statement and changes neither
\* the capacity nor any slot.
C3_LeakIdempotent ==
    [][\A i \in 0..len(Top) - 1 :
           (/\ is_temporary(Top.var_list[i + 1], Top.previous + i)
            /\ op'.name = "leak_at"
            /\ op'.a = i)
           => (op'.ret = <<>> /\ scopes' = scopes)]_vars

C3_Witness ==
    /\ op.name = "leak_at"
    /\ op.ret = <<>>
    /\ Top.previous >= 1
    /\ Top.capacity > Top.previous + op.a

\* C4 as stated: a temporary that a leak_at has written is never written
\* again by a later leak_at with a different value.
C4_NeverRewritten ==
    [][(/\ op'.name = "leak_at"
        /\ op'.ret # <<>>
        /\ last_set # <<>>
        /\ op'.ret[1].var = last_set[1].var)
       => op'.ret[1].value = last_set[1].value]_vars

\* C4 as amended: leak_at(i) writes the temporary whose index is the slot's
\* position in the whole function's operand stack, never while the slot
\* already holds the bare read of that temporary; so the temporaries the
\* live slots hold bare are their own positions and increase with position.
C4_TempIsPosition ==
    [][/\ (op'.name = "leak_at" /\ op'.ret # <<>>) =>
              LET t == op'.ret[1].var
              IN  /\ t = Below(scopes, Len(scopes)) + op'.a
                  /\ Top.var_list[op'.a + 1].data # GetTemporary(t)
                  /\ op'.ret[1].value = Top.var_list[op'.a + 1].data
                  /\ Flatten(scopes')[t + 1].data = GetTemporary(t)
       /\ \A p \in 1..Len(Flatten(scopes')) :
              Flatten(scopes')[p].data.k = "GetTemporary"
              => Flatten(scopes')[p].data.n = p - 1]_vars

C4_Witness ==
    /\ op.name = "leak_at"
    /\ op.ret # <<>>
    /\ last_set # <<>>
    /\ Top.previous >= 1
    /\ op.ret[1].var = Top.previous + op.a

\* C5: split_last(len) keeps the first n - len slots in the parent, gives
\* the child the last len slots in order, child.previous = parent.previous
\* + (n - len) and child.capacity = parent.capacity, so every slot keeps
\* its function-wide position at every nesting depth.
C5_SplitLast ==
    [][(op'.name = "split_last" /\ Len(scopes') = Len(scopes) + 1) =>
           LET n == len(Top)
               k == op'.a
               parent == scopes'[Len(scopes)]
               child == scopes'[Len(scopes')]
           IN  /\ parent.var_list = SubSeq(Top.var_list, 1, n - k)
               /\ child.var_list = SubSeq(Top.var_list, n - k + 1, n)
               /\ child.previous = Top.previous + (n - k)
               /\ child.capacity = Top.capacity
               /\ parent.previous = Top.previous
               /\ Flatten(scopes') = Flatten(scopes)
               /\ \A j \in 1..Len(scopes') : scopes'[j].previous = Below(scopes', j)]_vars

C5_Witness ==
    /\ op.name = "split_last"
    /\ Len(scopes) = 3
    /\ op.a = 1
    /\ Top.previous = 2
    /\ len(scopes[2]) = 1

\* C6: push_with_single tags the pushed slot with exactly one hazard, the
\* cell the expression reads at its own index.
C6_SingleHazard ==
    op.name = "push_with_single" =>
        LET s == Top.var_list[len(Top)]
        IN  /\ s.read = {OwnCell(s.data)}
            /\ \A c \in Cells : has_read_at(Top, len(Top) - 1, c) <=> c = OwnCell(s.data)

(***************************************************************************)
(* Branch tables: a table is grown entry by entry and may be emitted at    *)
(* any length, under a Visitor with MaxTarget + 1 open scopes.             *)
(***************************************************************************)
\* the labels of MaxTarget + 1 open scopes, some labels between them closed
OpenVisitor ==
    [label_list |-> [i \in 1..MaxTarget + 1 |-> 2 * (i - 1)],
     num_label |-> 2 * MaxTarget + 1,
     num_param |-> 0]

TableInit ==
    /\ StackIdle
    /\ RunIdle
    /\ sel = <<>>
    /\ ModuleIdle
    /\ v = OpenVisitor
    /\ text = <<>>
    /\ frames = <<>>
    /\ info = <<>>
    /\ br_table = <<>>
    /\ dflt \in 0..MaxTarget
    /\ ranges = <<>>

\* one more entry in the table
TableGrow ==
    \E target \in 0..MaxTarget :
        /\ Len(br_table) < MaxTableLen
        /\ br_table' = Append(br_table, target)
        /\ text' = <<>>
        /\ ranges' = <<>>
        /\ UNCHANGED <<dflt, v, frames, info, stackVars, runVars, sel, moduleVars>>

\* BrTable::visit on the table
TableVisit ==
    /\ text = <<>>
    /\ ranges' = condense_jump_table(br_table)
    /\ text' = br_table_visit(br_table, dflt, v)
    /\ UNCHANGED <<br_table, dflt, v, frames, info, stackVars, runVars, sel, moduleVars>>

TableNext ==
    \/ TableGrow
    \/ TableVisit

SpecTable == TableInit /\ [][TableNext]_vars

\* the runs of equal consecutive entries
Runs(table) ==
    Cardinality({i \in 1..Len(table) : i = 1 \/ table[i] # table[i - 1]})

\* the guards written, in order
Guards(toks) == SelectSeq(toks, LAMBDA t : t.t \in {"if ==", "if >= <="})

Jumps(toks) == SelectSeq(toks, LAMBDA t : t.t = "goto")

\* C7: condense_jump_table returns the maximal runs of equal consecutive
\* entries as (start, end, target) in ascending order, covering 0..len-1
\* once, adjacent ranges differing in target; the emitter writes one guard
\* per triple and then the default, so the number of guards is the number
\* of runs whatever the length of the table.
C7_Condensed ==
    text # <<>> =>
        /\ Len(ranges) = Runs(br_table)
        /\ br_table # <<>> => (ranges[1][1] = 0 /\ ranges[Len(ranges)][2] = Len(br_table) - 1)
        /\ \A k \in 1..Len(ranges) :
               /\ ranges[k][1] <= ranges[k][2]
               /\ \A i \in ranges[k][1]..ranges[k][2] : br_table[i + 1] = ranges[k][3]
        /\ \A k \in 1..Len(ranges) - 1 :
               /\ ranges[k + 1][1] = ranges[k][2] + 1
               /\ ranges[k + 1][3] # ranges[k][3]
        /\ Len(Guards(text)) = Len(ranges)
        /\ \A k \in 1..Len(ranges) :
               /\ Guards(text)[k].a = ranges[k][1]
               /\ Guards(text)[k].b = ranges[k][2]
               /\ Jumps(text)[k].a = v.label_list[Len(v.label_list) - ranges[k][3]]
        /\ Len(Jumps(text)) = Len(ranges) + 1
        /\ Jumps(text)[Len(ranges) + 1].a = v.label_list[Len(v.label_list) - dflt]

C7_Witness ==
    /\ br_table = <<0, 0, 0, 1, 1, 2>>
    /\ ranges = <<<<0, 2, 0>>, <<3, 4, 1>>, <<5, 5, 2>>>>
    /\ Len(Guards(text)) = 3

(***************************************************************************)
(* Structured control flow: one statement is emitted under a fresh         *)
(* Visitor, a visit call at a time, and the text written is then run as    *)
(* the Lua it is.                                                          *)
(***************************************************************************)
Frame(kind, label, arm) == [kind |-> kind, label |-> label, arm |-> arm]

\* the tokens the visit calls in progress have still to write
RECURSIVE Closers(_)
Closers(fs) ==
    IF fs = <<>> THEN 0
    ELSE (IF fs[1].kind = "Forward" THEN 1 ELSE 2) + Closers(Tail(fs))

Room(n) == Len(text) + n + Closers(frames) <= MaxText

\* a statement is visited inside a scope, or is the one statement emitted
CanVisit == phase = "emit" /\ (frames = <<>> => text = <<>>)

Enter(kind, written) ==
    /\ v' = push_label(v)
    /\ frames' = Append(frames, Frame(kind, v.num_label, "then"))
    /\ info' = Append(info, kind)
    /\ text' = text \o written

Exit(written) ==
    /\ text' = text \o written
    /\ v' = pop_label(v)
    /\ frames' = SubSeq(frames, 1, Len(frames) - 1)
    /\ UNCHANGED info

backward_tail_no_break == <<Tok("end", 0, 0)>>

\* write!(w, "break ") and write!(w, "end ") of Backward::visit
backward_tail == <<Tok("break", 0, 0), Tok("end", 0, 0)>>

\* Forward::visit up to its body
EnterForward ==
    /\ CanVisit
    /\ v.num_label < MaxLabels
    /\ Room(1)
    /\ Enter("Forward", <<>>)
    /\ UNCHANGED <<stackVars, tableVars, runVars, sel, moduleVars>>

\* Forward::visit after its body
ExitForward ==
    /\ phase = "emit"
    /\ frames # <<>>
    /\ frames[Len(frames)].kind = "Forward"
    /\ Exit(<<Tok("label", frames[Len(frames)].label, 0)>>)
    /\ UNCHANGED <<stackVars, tableVars, runVars, sel, moduleVars>>

\* Backward::visit up to its body
EnterBackward ==
    /\ CanVisit
    /\ v.num_label < MaxLabels
    /\ Room(4)
    /\ Enter("Backward", <<Tok("label", v.num_label, 0), Tok("while", 0, 0)>>)
    /\ UNCHANGED <<stackVars, tableVars, runVars, sel, moduleVars>>

\* Backward::visit after its body
ExitBackward ==
    /\ phase = "emit"
    /\ frames # <<>>
    /\ frames[Len(frames)].kind = "Backward"
    /\ Exit(backward_tail)
    /\ UNCHANGED <<stackVars, tableVars, runVars, sel, moduleVars>>

\* If::visit up to its truthy arm
EnterIf ==
    /\ CanVisit
    /\ v.num_label < MaxLabels
    /\ Room(3)
    /\ Enter("If", <<Tok("if", 0, 0)>>)
    /\ UNCHANGED <<stackVars, tableVars, runVars, sel, moduleVars>>

\* Else::visit up to its body, called by If::visit when falsey is Some
VisitElse ==
    /\ phase = "emit"
    /\ frames # <<>>
    /\ frames[Len(frames)].kind = "If"
    /\ frames[Len(frames)].arm = "then"
    /\ Room(1)
    /\ text' = Append(text, Tok("else", 0, 0))
    /\ frames' = [frames EXCEPT ![Len(frames)].arm = "else"]
    /\ UNCHANGED <<v, info, stackVars, tableVars, runVars, sel, moduleVars>>

\* If::visit after its arms
ExitIf ==
    /\ phase = "emit"
    /\ frames # <<>>
    /\ frames[Len(frames)].kind = "If"
    /\ Exit(<<Tok("label", frames[Len(frames)].label, 0), Tok("end", 0, 0)>>)
    /\ UNCHANGED <<stackVars, tableVars, runVars, sel, moduleVars>>

\* a statement that neither opens a scope nor branches
VisitStmt ==
    /\ phase = "emit"
    /\ frames # <<>>
    /\ Room(1)
    /\ text' = Append(text, Tok("stmt", 0, 0))
    /\ UNCHANGED <<v, frames, info, stackVars, tableVars, runVars, sel, moduleVars>>

\* Br::visit
VisitBr ==
    \E up \in 0..MaxLabels - 1 :
        /\ phase = "emit"
        /\ up < Len(v.label_list)
        /\ Room(1)
        /\ text' = text \o write_br_at(up, v)
        /\ UNCHANGED <<v, frames, info, stackVars, tableVars, runVars, sel, moduleVars>>

\* BrIf::visit
VisitBrIf ==
    \E up \in 0..MaxLabels - 1 :
        /\ phase = "emit"
        /\ up < Len(v.label_list)
        /\ Room(3)
        /\ text' = text \o <<Tok("if", 0, 0)>> \o write_br_at(up, v)
                        \o <<Tok("end", 0, 0)>>
        /\ UNCHANGED <<v, frames, info, stackVars, tableVars, runVars, sel, moduleVars>>

\* the statement is written: the text is loaded and run
StartRun ==
    /\ phase = "emit"
    /\ frames = <<>>
    /\ text # <<>>
    /\ phase' = "run"
    /\ pc' = 1
    /\ UNCHANGED <<passes, jumps, jumped, emitVars, stackVars, tableVars, sel, moduleVars>>

(***************************************************************************)
(* Lua's reading of the text: blocks, the visibility of labels, goto,      *)
(* while, break and if.                                                    *)
(***************************************************************************)
\* the blocks open after a token, given those open before it; a block is
\* named by the position of the token that opens it
BlocksAfter(open, tok, pos) ==
    IF tok.t \in {"while", "if"} THEN Append(open, pos)
    ELSE IF tok.t = "else" THEN Append(SubSeq(open, 1, Len(open) - 1), pos)
    ELSE IF tok.t = "end" THEN SubSeq(open, 1, Len(open) - 1)
    ELSE open

\* the blocks the token at a position lies in, outermost first
RECURSIVE BlockStack(_)
BlockStack(i) ==
    IF i = 1 THEN <<>>
    ELSE BlocksAfter(BlockStack(i - 1), text[i - 1], i - 1)

IsPrefix(a, b) == Len(a) <= Len(b) /\ SubSeq(b, 1, Len(a)) = a

LabelPositions(l) == {i \in 1..Len(text) : text[i] = Tok("label", l, 0)}

LabelPos(l) == CHOOSE i \in LabelPositions(l) : TRUE

\* a label is visible in the block where it is defined and in the blocks
\* nested in it
Visible(l, from) ==
    /\ LabelPositions(l) # {}
    /\ IsPrefix(BlockStack(LabelPos(l)), BlockStack(from))

\* the end that closes the block a while, if or else opens
CloseOf(p) ==
    CHOOSE j \in p + 1..Len(text) :
        /\ text[j].t = "end"
        /\ Len(BlockStack(j + 1)) = Len(BlockStack(p + 1)) - 1
        /\ \A k \in p + 1..j - 1 :
               text[k].t = "end" =>
                   Len(BlockStack(k + 1)) >= Len(BlockStack(p + 1))

\* the else of an if, if it has one
ElseOf(p) ==
    {j \in p + 1..CloseOf(p) : text[j].t = "else" /\ BlockStack(j) = BlockStack(p + 1)}

\* the innermost loop a position lies in
LoopOf(i) ==
    LET open == BlockStack(i)
        loops == {k \in 1..Len(open) : text[open[k]].t = "while"}
    IN  open[CHOOSE k \in loops : \A m \in loops : m <= k]

At(t) == phase = "run" /\ pc \in 1..Len(text) /\ text[pc].t = t

Kind(l) == info[l + 1]

RunStmt ==
    /\ At("stmt")
    /\ pc' = pc + 1
    /\ UNCHANGED <<phase, passes, jumps, jumped, emitVars, stackVars, tableVars, sel, moduleVars>>

\* a label does nothing; control that falls into the label of a loop starts
\* a run of the loop
RunLabel ==
    /\ At("label")
    /\ pc' = pc + 1
    /\ jumped' = -1
    /\ IF jumped # text[pc].a
       THEN /\ passes' = [passes EXCEPT ![text[pc].a] = 0]
            /\ jumps' = [jumps EXCEPT ![text[pc].a] = 0]
       ELSE UNCHANGED <<passes, jumps>>
    /\ UNCHANGED <<phase, emitVars, stackVars, tableVars, sel, moduleVars>>

\* while true do: the body is entered
RunWhile ==
    /\ At("while")
    /\ passes[text[pc - 1].a] <= MaxJumps
    /\ passes' = [passes EXCEPT ![text[pc - 1].a] = @ + 1]
    /\ pc' = pc + 1
    /\ UNCHANGED <<phase, jumps, jumped, emitVars, stackVars, tableVars, sel, moduleVars>>

RunBreak ==
    /\ At("break")
    /\ pc' = CloseOf(LoopOf(pc)) + 1
    /\ UNCHANGED <<phase, passes, jumps, jumped, emitVars, stackVars, tableVars, sel, moduleVars>>

\* if <condition> then, the condition either way
RunIf ==
    \E cond \in BOOLEAN :
        /\ At("if")
        /\ pc' = IF cond THEN pc + 1
                 ELSE IF ElseOf(pc) # {} THEN (CHOOSE j \in ElseOf(pc) : TRUE) + 1
                 ELSE CloseOf(pc) + 1
        /\ UNCHANGED <<phase, passes, jumps, jumped, emitVars, stackVars, tableVars, sel, moduleVars>>

\* the then arm is over
RunElse ==
    /\ At("else")
    /\ pc' = CloseOf(pc) + 1
    /\ UNCHANGED <<phase, passes, jumps, jumped, emitVars, stackVars, tableVars, sel, moduleVars>>

\* the end of a loop goes round, the end of an if goes on
RunEnd ==
    /\ At("end")
    /\ LET open == BlockStack(pc)
           opener == open[Len(open)]
       IN  pc' = IF text[opener].t = "while" THEN opener ELSE pc + 1
    /\ UNCHANGED <<phase, passes, jumps, jumped, emitVars, stackVars, tableVars, sel, moduleVars>>

\* goto: to the label if it is visible; if it is not, the text does not load
RunGoto ==
    /\ At("goto")
    /\ LET l == text[pc].a
       IN  /\ Kind(l) = "Backward" => jumps[l] < MaxJumps
           /\ jumped' = l
           /\ jumps' = IF Kind(l) = "Backward"
                       THEN [jumps EXCEPT ![l] = @ + 1]
                       ELSE jumps
           /\ IF Visible(l, pc)
              THEN pc' = LabelPos(l) /\ phase' = "run"
              ELSE pc' = pc /\ phase' = "error"
    /\ UNCHANGED <<passes, emitVars, stackVars, tableVars, sel, moduleVars>>

EmitInit ==
    /\ StackIdle
    /\ EmitIdle
    /\ TableIdle
    /\ RunIdle
    /\ sel = <<>>
    /\ ModuleIdle

EmitNext ==
    \/ EnterForward
    \/ ExitForward
    \/ EnterBackward
    \/ ExitBackward
    \/ EnterIf
    \/ VisitElse
    \/ ExitIf
    \/ VisitStmt
    \/ VisitBr
    \/ VisitBrIf
    \/ StartRun
    \/ RunStmt
    \/ RunLabel
    \/ RunWhile
    \/ RunBreak
    \/ RunIf
    \/ RunElse
    \/ RunEnd
    \/ RunGoto

SpecEmit == EmitInit /\ [][EmitNext]_vars

Loops == {l \in 0..Len(info) - 1 : Kind(l) = "Backward"}

Exits == {l \in 0..Len(info) - 1 : Kind(l) \in {"Forward", "If"}}

\* C8: in the text of a Backward scope the body is entered once when control
\* falls into the loop and once more for every branch taken to the scope,
\* a branch to the scope lands on the label in front of the loop, and the
\* closing end of the loop is never reached, so nothing but such a branch
\* brings control back into the body.
C8_LoopPasses ==
    phase = "run" =>
        \A l \in Loops :
            LET at == LabelPos(l)
                close == CloseOf(at + 1)
            IN  /\ Cardinality(LabelPositions(l)) = 1
                /\ text[at + 1].t = "while"
                /\ jumped = l => (pc = at /\ jumps[l] >= 1 /\ passes[l] = jumps[l])
                /\ pc = at + 1 => passes[l] = jumps[l]
                /\ pc \in at + 2..close => passes[l] = 1 + jumps[l]
                /\ pc # close
                /\ pc \notin at..close =>
                       \/ passes[l] = 0 /\ jumps[l] = 0
                       \/ passes[l] = 1 + jumps[l]

\* a loop left after one branch back to it: two passes of the body
C8_Witness ==
    /\ phase = "run"
    /\ \E l \in Loops :
           /\ jumps[l] = 1
           /\ passes[l] = 2
           /\ pc > CloseOf(LabelPos(l) + 1)

\* C9: a branch taken to a Forward or an If scope, from anywhere in its
\* body, lands on the scope's one exit label, and nothing but the closing
\* end of the construct follows that label inside the construct.
C9_BranchExits ==
    \A l \in Exits :
        (phase \in {"run", "error"} /\ jumped = l) =>
            /\ phase = "run"
            /\ Cardinality(LabelPositions(l)) = 1
            /\ pc = LabelPos(l)
            /\ Kind(l) = "If" => text[pc + 1].t = "end"

(***************************************************************************)
(* The operator tables (into_string.rs): each operator's helper identity.  *)
(***************************************************************************)
\* impl IntoNameTuple for UnOpType
UnOpType_into_name_tuple ==
    "Clz_I32" :> <<"bit", "countlz">>
    @@ "Ctz_I32" :> <<"bit", "countrz">>
    @@ "Popcnt_I32" :> <<"rt_popcnt", "i32">>
    @@ "Clz_I64" :> <<"rt_clz", "i64">>
    @@ "Ctz_I64" :> <<"rt_ctz", "i64">>
    @@ "Popcnt_I64" :> <<"rt_popcnt", "i64">>
    @@ "Abs_F32" :> <<"math", "abs">>
    @@ "Neg_F32" :> <<"rt_neg", "f32">>
    @@ "Ceil_F32" :> <<"math", "ceil">>
    @@ "Floor_F32" :> <<"math", "floor">>
    @@ "Truncate_F32" :> <<"rt_truncate", "f32">>
    @@ "Nearest_F32" :> <<"rt_nearest", "f32">>
    @@ "Sqrt_F32" :> <<"math", "sqrt">>
    @@ "Abs_F64" :> <<"math", "abs">>
    @@ "Neg_F64" :> <<"rt_neg", "f64">>
    @@ "Ceil_F64" :> <<"math", "ceil">>
    @@ "Floor_F64" :> <<"math", "floor">>
    @@ "Truncate_F64" :> <<"rt_truncate", "f64">>
    @@ "Nearest_F64" :> <<"rt_nearest", "f64">>
    @@ "Sqrt_F64" :> <<"math", "sqrt">>
    @@ "Wrap_I32_I64" :> <<"rt_wrap", "i32_i64">>
    @@ "Truncate_I32_F32" :> <<"rt_truncate", "i32_f32">>
    @@ "Truncate_I32_F64" :> <<"rt_truncate", "u32_f64">>
    @@ "Truncate_U32_F32" :> <<"rt_truncate", "u32_f32">>
    @@ "Truncate_U32_F64" :> <<"rt_truncate", "u32_f64">>
    @@ "Truncate_I64_F32" :> <<"rt_truncate", "i64_f32">>
    @@ "Truncate_I64_F64" :> <<"rt_truncate", "i64_f64">>
    @@ "Truncate_U64_F32" :> <<"rt_truncate", "u64_f32">>
    @@ "Truncate_U64_F64" :> <<"rt_truncate", "u64_f64">>
    @@ "Saturate_I32_F32" :> <<"rt_saturate", "i32_f32">>
    @@ "Saturate_I32_F64" :> <<"rt_saturate", "i32_f64">>
    @@ "Saturate_U32_F32" :> <<"rt_saturate", "u32_f32">>
    @@ "Saturate_U32_F64" :> <<"rt_saturate", "u32_f64">>
    @@ "Saturate_I64_F32" :> <<"rt_saturate", "i64_f32">>
    @@ "Saturate_I64_F64" :> <<"rt_saturate", "i64_f64">>
    @@ "Saturate_U64_F32" :> <<"rt_saturate", "u64_f32">>
    @@ "Saturate_U64_F64" :> <<"rt_saturate", "u64_f64">>
    @@ "Extend_I32_N8" :> <<"rt_extend", "i32_n8">>
    @@ "Extend_I32_N16" :> <<"rt_extend", "i32_n16">>
    @@ "Extend_I64_N8" :> <<"rt_extend", "i64_n8">>
    @@ "Extend_I64_N16" :> <<"rt_extend", "i64_n16">>
    @@ "Extend_I64_N32" :> <<"rt_extend", "i64_n32">>
    @@ "Extend_I64_I32" :> <<"rt_extend", "i64_i32">>
    @@ "Extend_I64_U32" :> <<"rt_extend", "i64_u32">>
    @@ "Convert_F32_I32" :> <<"rt_convert", "f64_i32">>
    @@ "Convert_F32_U32" :> <<"no", "op">>
    @@ "Convert_F32_I64" :> <<"rt_convert", "f64_i64">>
    @@ "Convert_F32_U64" :> <<"rt_convert", "f64_u64">>
    @@ "Demote_F32_F64" :> <<"no", "op">>
    @@ "Convert_F64_I32" :> <<"rt_convert", "f64_i32">>
    @@ "Convert_F64_U32" :> <<"no", "op">>
    @@ "Convert_F64_I64" :> <<"rt_convert", "f64_i64">>
    @@ "Convert_F64_U64" :> <<"rt_convert", "f64_u64">>
    @@ "Promote_F64_F32" :> <<"no", "op">>
    @@ "Reinterpret_I32_F32" :> <<"rt_reinterpret", "i32_f32">>
    @@ "Reinterpret_I64_F64" :> <<"rt_reinterpret", "i64_f64">>
    @@ "Reinterpret_F32_I32" :> <<"rt_reinterpret", "f32_i32">>
    @@ "Reinterpret_F64_I64" :> <<"rt_reinterpret", "f64_i64">>

\* impl IntoNameTuple for BinOpType
BinOpType_into_name_tuple ==
    "Add_I32" :> <<"rt_add", "i32">>
    @@ "Sub_I32" :> <<"rt_sub", "i32">>
    @@ "Mul_I32" :> <<"rt_mul", "i32">>
    @@ "DivS_I32" :> <<"rt_div", "i32">>
    @@ "DivU_I32" :> <<"rt_div", "u32">>
    @@ "RemS_I32" :> <<"rt_rem", "i32">>
    @@ "RemU_I32" :> <<"rt_rem", "u32">>
    @@ "And_I32" :> <<"bit", "and">>
    @@ "Or_I32" :> <<"bit", "or">>
    @@ "Xor_I32" :> <<"bit", "xor">>
    @@ "Shl_I32" :> <<"rt_shl", "i32">>
    @@ "ShrS_I32" :> <<"rt_shr", "i32">>
    @@ "ShrU_I32" :> <<"rt_shr", "u32">>
    @@ "Rotl_I32" :> <<"rt_rotl", "i32">>
    @@ "Rotr_I32" :> <<"rt_rotr", "i32">>
    @@ "Add_I64" :> <<"rt_add", "i64">>
    @@ "Sub_I64" :> <<"rt_sub", "i64">>
    @@ "Mul_I64" :> <<"rt_mul", "i64">>
    @@ "DivS_I64" :> <<"rt_div", "i64">>
    @@ "DivU_I64" :> <<"rt_div", "u64">>
    @@ "RemS_I64" :> <<"rt_rem", "i64">>
    @@ "RemU_I64" :> <<"rt_rem", "u64">>
    @@ "And_I64" :> <<"rt_bit_and", "i64">>
    @@ "Or_I64" :> <<"rt_bit_or", "i64">>
    @@ "Xor_I64" :> <<"rt_bit_xor", "i64">>
    @@ "Shl_I64" :> <<"rt_shl", "i64">>
    @@ "ShrS_I64" :> <<"rt_shr", "i64">>
    @@ "ShrU_I64" :> <<"rt_shr", "u64">>
    @@ "Rotl_I64" :> <<"rt_rotl", "i64">>
    @@ "Rotr_I64" :> <<"rt_rotr", "i64">>
    @@ "Add_F32" :> <<"rt_add", "f32">>
    @@ "Sub_F32" :> <<"rt_sub", "f32">>
    @@ "Mul_F32" :> <<"rt_mul", "f32">>
    @@ "Div_F32" :> <<"rt_div", "f32">>
    @@ "Min_F32" :> <<"rt_min", "f32">>
    @@ "Max_F32" :> <<"rt_max", "f32">>
    @@ "Copysign_F32" :> <<"rt_copysign", "f32">>
    @@ "Add_F64" :> <<"rt_add", "f64">>
    @@ "Sub_F64" :> <<"rt_sub", "f64">>
    @@ "Mul_F64" :> <<"rt_mul", "f64">>
    @@ "Div_F64" :> <<"rt_div", "f64">>
    @@ "Min_F64" :> <<"rt_min", "f64">>
    @@ "Max_F64" :> <<"rt_max", "f64">>
    @@ "Copysign_F64" :> <<"rt_copysign", "f64">>

\* impl IntoNameTuple for CmpOpType
CmpOpType_into_name_tuple ==
    "Eq_I32" :> <<"rt_eq", "i32">>
    @@ "Ne_I32" :> <<"rt_ne", "i32">>
    @@ "LtS_I32" :> <<"rt_lt", "i32">>
    @@ "LtU_I32" :> <<"rt_lt", "u32">>
    @@ "GtS_I32" :> <<"rt_gt", "i32">>
    @@ "GtU_I32" :> <<"rt_gt", "u32">>
    @@ "LeS_I32" :> <<"rt_le", "i32">>
    @@ "LeU_I32" :> <<"rt_le", "u32">>
    @@ "GeS_I32" :> <<"rt_ge", "i32">>
    @@ "GeU_I32" :> <<"rt_ge", "u32">>
    @@ "Eq_I64" :> <<"rt_eq", "i64">>
    @@ "Ne_I64" :> <<"rt_ne", "i64">>
    @@ "LtS_I64" :> <<"rt_lt", "i64">>
    @@ "LtU_I64" :> <<"rt_lt", "u64">>
    @@ "GtS_I64" :> <<"rt_gt", "i64">>
    @@ "GtU_I64" :> <<"rt_gt", "u64">>
    @@ "LeS_I64" :> <<"rt_le", "i64">>
    @@ "LeU_I64" :> <<"rt_le", "u64">>
    @@ "GeS_I64" :> <<"rt_ge", "i64">>
    @@ "GeU_I64" :> <<"rt_ge", "u64">>
    @@ "Eq_F32" :> <<"rt_eq", "f32">>
    @@ "Ne_F32" :> <<"rt_ne", "f32">>
    @@ "Lt_F32" :> <<"rt_lt", "f32">>
    @@ "Gt_F32" :> <<"rt_gt", "f32">>
    @@ "Le_F32" :> <<"rt_le", "f32">>
    @@ "Ge_F32" :> <<"rt_ge", "f32">>
    @@ "Eq_F64" :> <<"rt_eq", "f64">>
    @@ "Ne_F64" :> <<"rt_ne", "f64">>
    @@ "Lt_F64" :> <<"rt_lt", "f64">>
    @@ "Gt_F64" :> <<"rt_gt", "f64">>
    @@ "Le_F64" :> <<"rt_le", "f64">>
    @@ "Ge_F64" :> <<"rt_ge", "f64">>

\* the signed and the unsigned variant of one operation on the same types
SignedUnsigned ==
    {<<"Convert_F32_I32", "Convert_F32_U32">>,
     <<"Convert_F32_I64", "Convert_F32_U64">>,
     <<"Convert_F64_I32", "Convert_F64_U32">>,
     <<"Convert_F64_I64", "Convert_F64_U64">>,
     <<"Extend_I64_I32", "Extend_I64_U32">>,
     <<"Saturate_I32_F32", "Saturate_U32_F32">>,
     <<"Saturate_I32_F64", "Saturate_U32_F64">>,
     <<"Saturate_I64_F32", "Saturate_U64_F32">>,
     <<"Saturate_I64_F64", "Saturate_U64_F64">>,
     <<"Truncate_I32_F32", "Truncate_U32_F32">>,
     <<"Truncate_I32_F64", "Truncate_U32_F64">>,
     <<"Truncate_I64_F32", "Truncate_U64_F32">>,
     <<"Truncate_I64_F64", "Truncate_U64_F64">>,
     <<"DivS_I32", "DivU_I32">>,
     <<"DivS_I64", "DivU_I64">>,
     <<"RemS_I32", "RemU_I32">>,
     <<"RemS_I64", "RemU_I64">>,
     <<"ShrS_I32", "ShrU_I32">>,
     <<"ShrS_I64", "ShrU_I64">>,
     <<"GeS_I32", "GeU_I32">>,
     <<"GeS_I64", "GeU_I64">>,
     <<"GtS_I32", "GtU_I32">>,
     <<"GtS_I64", "GtU_I64">>,
     <<"LeS_I32", "LeU_I32">>,
     <<"LeS_I64", "LeU_I64">>,
     <<"LtS_I32", "LtU_I32">>,
     <<"LtS_I64", "LtU_I64">>}

\* the counterparts of an operator: the same operation in the other signedness
Counterparts(name) ==
    {p[2] : p \in {q \in SignedUnsigned : q[1] = name}}
        \cup {p[1] : p \in {q \in SignedUnsigned : q[2] = name}}

Selected(kind, name, tuple) == [kind |-> kind, name |-> name, tuple |-> tuple]

\* UnOpType::into_name_tuple on some operator
UnOpName ==
    \E name \in DOMAIN UnOpType_into_name_tuple :
        /\ sel' = <<Selected("UnOpType", name, UnOpType_into_name_tuple[name])>>
        /\ UNCHANGED <<stackVars, emitVars, tableVars, runVars, moduleVars>>

\* BinOpType::into_name_tuple on some operator
BinOpName ==
    \E name \in DOMAIN BinOpType_into_name_tuple :
        /\ sel' = <<Selected("BinOpType", name, BinOpType_into_name_tuple[name])>>
        /\ UNCHANGED <<stackVars, emitVars, tableVars, runVars, moduleVars>>

\* CmpOpType::into_name_tuple on some operator
CmpOpName ==
    \E name \in DOMAIN CmpOpType_into_name_tuple :
        /\ sel' = <<Selected("CmpOpType", name, CmpOpType_into_name_tuple[name])>>
        /\ UNCHANGED <<stackVars, emitVars, tableVars, runVars, moduleVars>>

OpsInit ==
    /\ StackIdle
    /\ EmitIdle
    /\ TableIdle
    /\ RunIdle
    /\ sel = <<>>
    /\ ModuleIdle

OpsNext ==
    \/ UnOpName
    \/ BinOpName
    \/ CmpOpName

SpecOps == OpsInit /\ [][OpsNext]_vars

\* the table an operator of a kind is looked up in
TableOf(kind) ==
    IF kind = "UnOpType" THEN UnOpType_into_name_tuple
    ELSE IF kind = "BinOpType" THEN BinOpType_into_name_tuple
    ELSE CmpOpType_into_name_tuple

\* C10: in every operator table the signed and the unsigned variant of the
\* same operation on the same types have different helper identities: the
\* identity returned for an operator is never the one its counterpart gets.
C10_SignedUnsignedDistinct ==
    sel # <<>> =>
        \A other \in Counterparts(sel[1].name) :
            TableOf(sel[1].kind)[other] # sel[1].tuple

(***************************************************************************)
(* Constant expressions: write_constant of gen.rs and of translator.rs.    *)
(***************************************************************************)
MaxCode == 3        \* instructions of a constant expression before its End

Inst(name, n) == [op |-> name, n |-> n]

\* the numeric literals and the global read write_constant recognizes
Recognized ==
    {Inst("I32Const", n) : n \in 0..NumValues - 1}
    \cup {Inst("I64Const", 0), Inst("F32Const", 0), Inst("F64Const", 0)}
    \cup {Inst("GetGlobal", i) : i \in 0..NumGlobals - 1}

\* the instructions a constant expression is drawn from
Instructions == Recognized \cup {Inst("I32Add", 0), Inst("Nop", 0)}

\* what write_constant writes for a recognized instruction
constant_text(inst) ==
    IF inst.op = "I32Const" THEN Tok("{v} ", inst.n, 0)
    ELSE IF inst.op = "I64Const" THEN Tok("{v}LL ", inst.n, 0)
    ELSE IF inst.op = "F32Const" THEN Tok("{number:e} ", inst.n, 32)
    ELSE IF inst.op = "F64Const" THEN Tok("{number:e} ", inst.n, 64)
    ELSE Tok("GLOBAL_LIST[{i}].value ", inst.n, 0)

Placeholder == Tok("error(\"mundane expression\")", 0, 0)

RECURSIVE write_constant(_, _)
\* write_constant of gen.rs: the first recognized instruction is written,
\* every other instruction is passed over
write_constant(code, r) ==
    IF code = <<>> THEN try(r, Placeholder)
    ELSE IF code[1] \in Recognized THEN try(r, constant_text(code[1]))
    ELSE write_constant(Tail(code), r)

\* one more instruction in the constant expression
ConstGrow ==
    \E inst \in Instructions :
        /\ outcome = ""
        /\ Len(wasm) < MaxCode
        /\ wasm' = Append(wasm, inst)
        /\ UNCHANGED <<sink, outcome, trace, stackVars, emitVars, tableVars, runVars, sel>>

\* write_constant on the expression and its End
ConstWrite ==
    /\ outcome = ""
    /\ LET r == write_constant(wasm \o <<Inst("End", 0)>>, Done(sink, "Ok"))
       IN  /\ sink' = r.sink
           /\ outcome' = r.res
    /\ UNCHANGED <<wasm, trace, stackVars, emitVars, tableVars, runVars, sel>>

ConstNext ==
    \/ ConstGrow
    \/ ConstWrite

SpecConst == StackInit /\ [][ConstNext]_vars

\* the forms of an expression that are neither literals nor global reads
Unrecognized(code) == {i \in 1..Len(code) : code[i] \notin Recognized}

\* C11: an expression holding any form other than a recognized literal or
\* a global read makes write_constant write the failing placeholder and
\* return Ok; an expression of one recognized form is written as that
\* constant.
C11_PlaceholderForUnknown ==
    outcome # "" =>
        /\ outcome = "Ok"
        /\ Unrecognized(wasm) # {} => sink.text = <<Placeholder>>
        /\ (Len(wasm) = 1 /\ Unrecognized(wasm) = {}) =>
               sink.text = <<constant_text(wasm[1])>>

(***************************************************************************)
(* The module translator (translator.rs).  A module is its sections; what  *)
(* is written is one Stmt per write!.                                      *)
(***************************************************************************)
MaxImports == 2     \* entries of the import section
MaxLocal == 2       \* locally defined tables, memories, globals
MaxFuncs == 2       \* bodies of the code section
MaxData == 2        \* segments of the data section
MaxExports == 1     \* entries of the export section
NumHelpers == 2     \* helper identities a function can use

Stmt(t, name, a, b) == [t |-> t, name |-> name, a |-> a, b |-> b]

Kinds == <<"Func", "Table", "Memory", "Global">>

EmptyModule ==
    [import_section |-> <<>>, table_section |-> 0, memory_section |-> 0,
     global_section |-> 0, element_section |-> <<>>, data_section |-> <<>>,
     code_section |-> <<>>, start_section |-> <<>>, export_section |-> <<>>]

\* External::as_ie_name; "" stands for the unimplemented!() of Tag
as_ie_name(external) ==
    IF external = "Func" THEN "func_list"
    ELSE IF external = "Table" THEN "table_list"
    ELSE IF external = "Memory" THEN "memory_list"
    ELSE IF external = "Global" THEN "global_list"
    ELSE ""

\* str::to_uppercase on the names as_ie_name returns
to_uppercase(lower) ==
    IF lower = "func_list" THEN "FUNC_LIST"
    ELSE IF lower = "table_list" THEN "TABLE_LIST"
    ELSE IF lower = "memory_list" THEN "MEMORY_LIST"
    ELSE IF lower = "global_list" THEN "GLOBAL_LIST"
    ELSE lower

\* list.iter().filter(|v| External::from(v.ty) == wanted)
OfKind(list, wanted) == SelectSeq(list, LAMBDA e : e.ty = wanted)

\* Module::import_count
import_count(m, external) == Len(OfKind(m.import_section, external))

\* write_import_of: its writes, in order
write_import_of(list, wanted) ==
    IF as_ie_name(wanted) = "" THEN <<Unimplemented>>
    ELSE LET found == OfKind(list, wanted)
         IN  [i \in 1..Len(found) |->
                 Stmt("{upper}[{i}] = wasm[module].{lower}[name]",
                      to_uppercase(as_ie_name(wanted)), i - 1, found[i].name)]

\* write_export_of
write_export_of(list, wanted) ==
    IF as_ie_name(wanted) = "" THEN <<Unimplemented>>
    ELSE LET found == OfKind(list, wanted)
             lower == as_ie_name(wanted)
         IN  <<Stmt("{lower} = {", lower, 0, 0)>>
             \o [i \in 1..Len(found) |->
                    Stmt("[name] = {upper}[{index}],", to_uppercase(lower),
                         found[i].index, found[i].name)]
             \o <<Stmt("},", lower, 0, 0)>>

\* write_import_list
write_import_list(list) ==
    write_import_of(list, "Func") \o write_import_of(list, "Table")
    \o write_import_of(list, "Memory") \o write_import_of(list, "Global")

\* write_export_list
write_export_list(list) ==
    write_export_of(list, "Func") \o write_export_of(list, "Table")
    \o write_export_of(list, "Memory") \o write_export_of(list, "Global")

slot_zero(offset, i) == i

\* let index = offset + i
slot_index(offset, i) == offset + i

\* write_table_list
write_table_list(m) ==
    [j \in 1..m.table_section |->
        Stmt("{upper}[{index}] = { min, max, data }", "TABLE_LIST",
             slot_index(import_count(m, "Table"), j - 1), 0)]

\* write_memory_list
write_memory_list(m) ==
    [j \in 1..m.memory_section |->
        Stmt("{upper}[{index}] = rt.allocator.new", "MEMORY_LIST",
             slot_index(import_count(m, "Memory"), j - 1), 0)]

\* the three writes of write_global_list for one global
global_entry(index) ==
    <<Stmt("{upper}[{index}] = { value =", "GLOBAL_LIST", index, 0),
      Stmt("constant", "", 0, 0),
      Stmt("}", "", 0, 0)>>

\* write_global_list
write_global_list(m) ==
    Each(m.global_section, 3,
         LAMBDA j : global_entry(slot_index(import_count(m, "Global"), j - 1)))

\* the writes of write_element_list for one active segment with one
\* function item
element_entry(segment) ==
    <<Stmt("do ", "", 0, 0),
      Stmt("local target = {upper}[{index}].data ", "TABLE_LIST", segment.index, 0),
      Stmt("local offset =", "", 0, 0),
      Stmt("constant", "", 0, 0),
      Stmt("local data = {", "", 0, 0),
      Stmt("{upper}[{index}],", "FUNC_LIST", segment.item, 0),
      Stmt("}", "", 0, 0),
      Stmt("table.move(data, 1, #data, offset, target)", "", 0, 0),
      Stmt("end ", "", 0, 0)>>

\* write_element_list: the segments before the first that is not active
\* are written, that one reaches unimplemented!()
write_element_list(list) ==
    LET p == FirstOther(list, "Active")
    IN  Each(p - 1, 9, LAMBDA i : element_entry(list[i]))
        \o (IF p <= Len(list) THEN <<Unimplemented>> ELSE <<>>)

\* the writes of write_data_list for one active segment
data_entry(segment) ==
    <<Stmt("rt.store.string(", "", 0, 0),
      Stmt("{upper}[{index}],", "MEMORY_LIST", segment.index, 0),
      Stmt("constant", "", 0, 0),
      Stmt(",data)", "", 0, 0)>>

\* write_data_list: a passive segment reaches unimplemented!()
write_data_list(list) ==
    LET p == FirstOther(list, "Active")
    IN  Each(p - 1, 4, LAMBDA i : data_entry(list[i]))
        \o (IF p <= Len(list) THEN <<Unimplemented>> ELSE <<>>)

\* the least element of a set of numbers
Least(S) == CHOOSE x \in S : \A y \in S : x <= y

RECURSIVE Ascending(_)
\* BTreeSet iteration: the elements in ascending order
Ascending(S) ==
    IF S = {} THEN <<>> ELSE <<Least(S)>> \o Ascending(S \ {Least(S)})

RECURSIVE InOrder(_)
InOrder(list) ==
    IF list = <<>> THEN <<>>
    ELSE <<list[1]>> \o SelectSeq(InOrder(Tail(list)), LAMBDA x : x # list[1])

RECURSIVE Extend(_, _, _)
\* loc_set.extend(loc) / mem_set.extend(mem) over the functions, in the
\* order the functions are scanned
Extend(func_list, field, set) ==
    IF func_list = <<>> THEN set
    ELSE Extend(Tail(func_list), field, set \cup func_list[1][field])

\* write_local_operation
write_local_operation(loc) == Stmt("local {head}_{tail} = ", "", loc, 0)

\* the elements of a sequence of sets of numbers, set by set, each set
\* iterated upwards or downwards
RECURSIVE Scanned(_, _, _)
Scanned(func_list, field, downwards) ==
    IF func_list = <<>> THEN <<>>
    ELSE LET up == Ascending(func_list[1][field])
             n == Len(up)
         IN  (IF downwards THEN [i \in 1..n |-> up[n + 1 - i]] ELSE up)
             \o Scanned(Tail(func_list), field, downwards)

\* BTreeSet: extend(..) with the items in the order given, then iterate
btree_iter(items) == Ascending({items[i] : i \in 1..Len(items)})

\* the mem_set write_localize_used returns
mem_set_of(func_list) == Extend(func_list, "mem", {})

\* write_localize_used: its writes, the loop over the functions having
\* extended loc_set with loc_items and mem_set with mem_items
write_localize_scanned(loc_items, mem_items) ==
    LET locs == btree_iter(loc_items)
        mems == btree_iter(mem_items)
    IN  [i \in 1..Len(locs) |-> write_local_operation(locs[i])]
        \o [i \in 1..Len(mems) |-> Stmt("local memory_at_{mem} ", "", mems[i], 0)]

\* write_localize_used
write_localize_used(func_list) ==
    write_localize_scanned(Scanned(func_list, "loc", FALSE),
                           Scanned(func_list, "mem", FALSE))

\* write_named_array
write_named_array(name, length) ==
    <<Stmt("local {name} = table_new({len}, {hash})", name,
           IF length = 0 THEN 0 ELSE length - 1,
           IF length < 1 THEN length ELSE 1)>>

\* Module::function_space and the like: imports and local definitions
space(m, external, local) == import_count(m, external) + local

\* write_func_start (no name section) and the write of the function
func_entry(index) ==
    <<Stmt("{upper}", "FUNC_LIST", 0, 0),
      Stmt("[{index}] =", "", index, 0),
      Stmt("function", "", index, 0)>>

\* write_func_list
write_func_list(m) ==
    Each(Len(m.code_section), 3,
         LAMBDA i : func_entry(slot_index(import_count(m, "Func"), i - 1)))

\* write_module_start up to the call of run_init_code
module_start_head(m) ==
    <<Stmt("local function run_init_code()", "", 0, 0)>>
    \o write_table_list(m)
    \o write_memory_list(m)
    \o write_global_list(m)
    \o write_element_list(m.element_section)
    \o write_data_list(m.data_section)
    \o <<Stmt("end ", "", 0, 0), Stmt("return function(wasm)", "", 0, 0)>>

module_start_calls_swapped(m) ==
    <<Stmt("run_init_code()", "", 0, 0)>> \o write_import_list(m.import_section)

\* write_import_list(..)?; write!(w, "run_init_code()")?
module_start_calls(m) ==
    write_import_list(m.import_section) \o <<Stmt("run_init_code()", "", 0, 0)>>

\* the end of write_module_start and of gen_start_point: the start function,
\* the export record
module_start_tail(m) ==
    (IF m.start_section = <<>> THEN <<>>
     ELSE <<Stmt("{upper}[{start}]()", "FUNC_LIST", m.start_section[1], 0)>>)
    \o <<Stmt("return {", "", 0, 0)>>
    \o write_export_list(m.export_section)
    \o <<Stmt("} end ", "", 0, 0)>>

\* write_module_start
write_module_start(m, mem_set) ==
    LET mems == Ascending(mem_set)
    IN  module_start_head(m)
        \o module_start_calls(m)
        \o [i \in 1..Len(mems) |->
               Stmt("memory_at_{mem} = {upper}[{mem}]", "MEMORY_LIST", mems[i], 0)]
        \o module_start_tail(m)

\* from_module_typed after write_localize_used: the named arrays, the
\* function list, the module start
from_module_rest(m, mem_set) ==
    <<Stmt("local table_new = require", "", 0, 0)>>
    \o write_named_array("FUNC_LIST", space(m, "Func", Len(m.code_section)))
    \o write_named_array("TABLE_LIST", space(m, "Table", m.table_section))
    \o write_named_array("MEMORY_LIST", space(m, "Memory", m.memory_section))
    \o write_named_array("GLOBAL_LIST", space(m, "Global", m.global_section))
    \o write_func_list(m)
    \o write_module_start(m, mem_set)

\* from_module_typed: the Result of its writes on the sink of r
from_module_typed(m, r) ==
    LET func_list == m.code_section
    IN  run(r, write_localize_used(func_list)
               \o from_module_rest(m, mem_set_of(func_list)))

(***************************************************************************)
(* Modules are built section by section and then translated.               *)
(***************************************************************************)
Building == outcome = ""

\* an import of one of the four kinds
AddImport ==
    \E ty \in {"Func", "Table", "Memory", "Global"} :
        /\ Building
        /\ Len(wasm.import_section) < MaxImports
        /\ wasm' = [wasm EXCEPT !.import_section =
                        Append(@, [ty |-> ty, name |-> Len(@), index |-> 0])]
        /\ UNCHANGED <<sink, outcome, trace, stackVars, emitVars, tableVars, runVars, sel>>

\* an import of an exception tag
AddTagImport ==
    /\ Building
    /\ Len(wasm.import_section) < MaxImports
    /\ wasm' = [wasm EXCEPT !.import_section =
                    Append(@, [ty |-> "Tag", name |-> Len(@), index |-> 0])]
    /\ UNCHANGED <<sink, outcome, trace, stackVars, emitVars, tableVars, runVars, sel>>

\* an export of any kind, the tag kind included
AddExport ==
    \E ty \in {"Func", "Table", "Memory", "Global", "Tag"} :
        /\ Building
        /\ Len(wasm.export_section) < MaxExports
        /\ wasm' = [wasm EXCEPT !.export_section =
                        Append(@, [ty |-> ty, name |-> Len(@), index |-> 0])]
        /\ UNCHANGED <<sink, outcome, trace, stackVars, emitVars, tableVars, runVars, sel>>

\* a data segment, active or passive
AddData ==
    \E kind \in {"Active", "Passive"} :
        /\ Building
        /\ Len(wasm.data_section) < MaxData
        /\ wasm' = [wasm EXCEPT !.data_section =
                        Append(@, [kind |-> kind, index |-> 0])]
        /\ UNCHANGED <<sink, outcome, trace, stackVars, emitVars, tableVars, runVars, sel>>

\* from_module_typed on the module
Translate ==
    /\ Building
    /\ LET r == from_module_typed(wasm, Done(sink, "Ok"))
       IN  /\ sink' = r.sink
           /\ outcome' = r.res
    /\ UNCHANGED <<wasm, trace, stackVars, emitVars, tableVars, runVars, sel>>

ModuleInit ==
    /\ StackIdle
    /\ EmitIdle
    /\ TableIdle
    /\ RunIdle
    /\ sel = <<>>
    /\ wasm = EmptyModule
    /\ sink = NewSink(0)
    /\ outcome = ""
    /\ trace = <<>>

UnsupportedNext ==
    \/ AddImport
    \/ AddTagImport
    \/ AddExport
    \/ AddData
    \/ Translate

SpecUnsupported == ModuleInit /\ [][UnsupportedNext]_vars

\* the module holds a passive data segment or a tag import or export
Unsupported(m) ==
    \/ \E i \in 1..Len(m.data_section) : m.data_section[i].kind = "Passive"
    \/ \E i \in 1..Len(m.import_section) : m.import_section[i].ty = "Tag"
    \/ \E i \in 1..Len(m.export_section) : m.export_section[i].ty = "Tag"

\* C12: the translation of a module that holds a passive data segment or
\* an import or export of an exception tag, wherever it stands, never
\* ends in success: it ends in an error that names the feature.
C12_UnsupportedAborts ==
    (outcome # "" /\ Unsupported(wasm)) =>
        /\ outcome # "Ok"
        /\ outcome # "panic: not implemented"

(***************************************************************************)
(* A sink that rejects a write.                                            *)
(***************************************************************************)
MaxFailAt == 24     \* the latest write the sink may reject
MaxParams == 2      \* parameters of the function emitted
MaxSinkTable == 2   \* entries of the branch table emitted to the sink

\* write_separated, func writing one token per item: the first item, then
\* ", " and an item for each of the others
write_separated(items) ==
    [q \in 1..2 * Len(items) - 1 |->
        IF q % 2 = 1 THEN items[(q + 1) \div 2] ELSE Tok(", ", 0, 0)]

\* write_ascending
write_ascending(prefix, from, to) ==
    write_separated([i \in 1..to - from |-> Tok(prefix, from + i - 1, 0)])

\* write_parameter_list
write_parameter_list(num_param) ==
    <<Tok("function(", 0, 0)>> \o write_ascending("param_{i}", 0, num_param)
    \o <<Tok(")", 0, 0)>>

\* Function::visit of a function without locals that touches the memories
\* mem; code is what self.code.visit writes
function_visit(num_param, mem, code) ==
    LET mems == Ascending(mem)
    IN  write_parameter_list(num_param)
        \o [i \in 1..Len(mems) |->
               Tok("local memory_at_{v} = MEMORY_LIST[{v}]", mems[i], 0)]
        \o <<Tok("local temp ", 0, 0)>>
        \o code
        \o <<Tok("end ", 0, 0)>>

\* a function that uses helper 0 and memory 0
AddPlainFunc ==
    /\ Building
    /\ br_table = <<>>
    /\ Len(wasm.code_section) < MaxFuncs
    /\ wasm' = [wasm EXCEPT !.code_section = Append(@, [loc |-> {0}, mem |-> {0}])]
    /\ UNCHANGED <<sink, outcome, trace, stackVars, emitVars, tableVars, runVars, sel>>

SinkAddImport == br_table = <<>> /\ AddImport

SinkAddData == br_table = <<>> /\ AddData

\* one more entry in the branch table of the function
SinkTableGrow ==
    /\ Building
    /\ wasm = EmptyModule
    /\ Len(br_table) < MaxSinkTable
    /\ TableGrow

\* Function::visit, writing to the sink
VisitFunction ==
    \E num_param \in 0..MaxParams, mem \in SUBSET (0..NumMemories - 1) :
        /\ Building
        /\ wasm = EmptyModule
        /\ LET r == run(Done(sink, "Ok"),
                        function_visit(num_param, mem, br_table_visit(br_table, dflt, v)))
           IN  /\ sink' = r.sink
               /\ outcome' = r.res
        /\ trace' = <<[num_param |-> num_param, mem |-> mem]>>
        /\ UNCHANGED <<wasm, stackVars, emitVars, tableVars, runVars, sel>>

SinkInit ==
    /\ StackIdle
    /\ RunIdle
    /\ TableIdle
    /\ sel = <<>>
    /\ v = OpenVisitor
    /\ text = <<>>
    /\ frames = <<>>
    /\ info = <<>>
    /\ wasm = EmptyModule
    /\ sink \in {NewSink(k) : k \in 0..MaxFailAt}
    /\ outcome = ""
    /\ trace = <<>>

SinkNext ==
    \/ SinkAddImport
    \/ SinkAddData
    \/ AddPlainFunc
    \/ Translate
    \/ SinkTableGrow
    \/ VisitFunction

SpecSink == SinkInit /\ [][SinkNext]_vars

\* what a sink that rejects nothing is handed for the same input
Unfailing ==
    IF trace = <<>>
    THEN from_module_typed(wasm, Done(NewSink(0), "Ok")).sink.text
    ELSE function_visit(trace[1].num_param, trace[1].mem,
                        br_table_visit(br_table, dflt, v))

\* C13: when the sink rejects its k-th write the translation returns that
\* error, the k-th write is the last one attempted, and what the sink took
\* before it is what an unfailing sink is handed first; without a rejected
\* write the translation does not return an error.
C13_WriteErrorPropagates ==
    outcome # "" =>
        /\ sink.text = SubSeq(Unfailing, 1, Len(sink.text))
        /\ (sink.fail_at # 0 /\ sink.attempts >= sink.fail_at) =>
               /\ outcome = "Err"
               /\ sink.attempts = sink.fail_at
               /\ Len(sink.text) = sink.fail_at - 1
        /\ outcome = "Err" => sink.attempts = sink.fail_at
        /\ (sink.fail_at = 0 /\ outcome = "Ok") => sink.text = Unfailing

\* a write rejected in the segment list of a module with imports and a
\* function, and one rejected between the guards of a branch table
C13_Witness ==
    /\ outcome = "Err"
    /\ \/ /\ Len(wasm.import_section) = 2
          /\ Len(wasm.code_section) = 1
          /\ Len(wasm.data_section) = 2
          /\ sink.fail_at = MaxFailAt
       \/ /\ br_table = <<1, 1>>
          /\ trace = <<[num_param |-> 2, mem |-> {0, 1}]>>
          /\ sink.fail_at = 12

(***************************************************************************)
(* Slots of the four index spaces.                                         *)
(***************************************************************************)
\* one more locally defined table, memory or global
AddLocal ==
    \E section \in {"table_section", "memory_section", "global_section"} :
        /\ Building
        /\ wasm[section] < MaxLocal
        /\ wasm' = [wasm EXCEPT ![section] = @ + 1]
        /\ UNCHANGED <<sink, outcome, trace, stackVars, emitVars, tableVars, runVars, sel>>

SlotsNext ==
    \/ AddImport
    \/ AddLocal
    \/ AddPlainFunc
    \/ Translate

SpecSlots == ModuleInit /\ [][SlotsNext]_vars

ImportTemplate == "{upper}[{i}] = wasm[module].{lower}[name]"

\* the statements that wire an import of the list named upper
ImportWrites(upper) ==
    SelectSeq(sink.text, LAMBDA s : s.t = ImportTemplate /\ s.name = upper)

\* the statements that store a locally defined entity in the list named upper
LocalWrites(upper) ==
    SelectSeq(sink.text, LAMBDA s :
        IF upper = "FUNC_LIST" THEN s.t = "[{index}] ="
        ELSE /\ s.name = upper
             /\ s.t \in {"{upper}[{index}] = { min, max, data }",
                         "{upper}[{index}] = rt.allocator.new",
                         "{upper}[{index}] = { value ="})

\* the locally defined entities of a kind
LocalCount(external) ==
    IF external = "Func" THEN Len(wasm.code_section)
    ELSE IF external = "Table" THEN wasm.table_section
    ELSE IF external = "Memory" THEN wasm.memory_section
    ELSE wasm.global_section

\* the names of the imports of a kind, in import order
ImportNames(external) ==
    LET found == SelectSeq(wasm.import_section, LAMBDA e : e.ty = external)
    IN  [i \in 1..Len(found) |-> found[i].name]

\* the storage declared for the list named upper: array part and slot 0
Declared(upper) ==
    SelectSeq(sink.text, LAMBDA s :
        s.t = "local {name} = table_new({len}, {hash})" /\ s.name = upper)

\* C14: for each of the four kinds the i-th import of the kind is wired to
\* slot i, the j-th local definition is written to slot (imports of the
\* kind) + j, every slot 0 .. imports + locals - 1 is assigned exactly once,
\* and the storage declared has that many slots.
C14_SlotsExact ==
    outcome = "Ok" =>
        \A k \in 1..Len(Kinds) :
            LET upper == to_uppercase(as_ie_name(Kinds[k]))
                imp == ImportWrites(upper)
                loc == LocalWrites(upper)
                names == ImportNames(Kinds[k])
                total == Len(names) + LocalCount(Kinds[k])
            IN  /\ Len(imp) = Len(names)
                /\ \A i \in 1..Len(imp) : imp[i].a = i - 1 /\ imp[i].b = names[i]
                /\ Len(loc) = LocalCount(Kinds[k])
                /\ \A j \in 1..Len(loc) : loc[j].a = Len(names) + j - 1
                /\ {imp[i].a : i \in 1..Len(imp)} \cup {loc[j].a : j \in 1..Len(loc)}
                       = 0..total - 1
                /\ Len(Declared(upper)) = 1
                /\ Declared(upper)[1].a + Declared(upper)[1].b = total

\* two imported and two local functions, and imports of another kind mixed
\* in with local definitions of it
C14_Witness ==
    /\ outcome = "Ok"
    /\ \/ /\ Len(ImportWrites("FUNC_LIST")) = 2
          /\ Len(LocalWrites("FUNC_LIST")) = 2
       \/ /\ Len(ImportWrites("GLOBAL_LIST")) = 1
          /\ Len(ImportWrites("TABLE_LIST")) = 1
          /\ Len(LocalWrites("GLOBAL_LIST")) = 2
          /\ Len(LocalWrites("TABLE_LIST")) = 2

(***************************************************************************)
(* The older generator (gen.rs): Generator::transpile.                     *)
(***************************************************************************)
\* Generator::gen_localize
gen_localize(func_list) ==
    LET locs == Ascending(Extend(func_list, "loc", {}))
    IN  [i \in 1..Len(locs) |-> Stmt("local {a}_{b} = rt.{a}.{b} ", "", locs[i], 0)]

RECURSIVE gen_func_from(_, _)
\* Generator::gen_func_list: write_func_start, then Function::visit
gen_func_from(m, i) ==
    IF i > Len(m.code_section) THEN <<>>
    ELSE <<Stmt("{upper}", "FUNC_LIST", 0, 0),
           Stmt("[{index}] =", "", i - 1 + import_count(m, "Func"), 0)>>
         \o function_visit(0, m.code_section[i].mem, <<Tok("code", i - 1, 0)>>)
         \o gen_func_from(m, i + 1)

gen_func_list(m) == gen_func_from(m, 1)

\* Generator::gen_start_point
gen_start_point(m) ==
    module_start_head(m) \o module_start_calls(m) \o module_start_tail(m)

\* Generator::transpile: the Result of its writes on the sink of r
transpile(m, r) ==
    run(r, <<Stmt("local rt = require", "", 0, 0)>>
           \o gen_localize(m.code_section)
           \o <<Stmt("local ZERO_i32 = 0 ", "", 0, 0),
                Stmt("local ZERO_i64 = 0LL ", "", 0, 0),
                Stmt("local ZERO_f32 = 0.0 ", "", 0, 0),
                Stmt("local ZERO_f64 = 0.0 ", "", 0, 0),
                Stmt("local table_new = require", "", 0, 0)>>
           \o write_named_array("FUNC_LIST", space(m, "Func", Len(m.code_section)))
           \o write_named_array("TABLE_LIST", space(m, "Table", m.table_section))
           \o write_named_array("MEMORY_LIST", space(m, "Memory", m.memory_section))
           \o write_named_array("GLOBAL_LIST", space(m, "Global", m.global_section))
           \o gen_func_list(m)
           \o gen_start_point(m))

\* Generator::transpile on the module
Transpile ==
    /\ Building
    /\ LET r == transpile(wasm, Done(sink, "Ok"))
       IN  /\ sink' = r.sink
           /\ outcome' = r.res
    /\ UNCHANGED <<wasm, trace, stackVars, emitVars, tableVars, runVars, sel>>

(***************************************************************************)
(* Running the entry function of the emitted text.                         *)
(***************************************************************************)
MaxEach == 1        \* entries per section of the modules that are run

\* an element segment, active with one function item, or not active
AddElement ==
    \E kind \in {"Active", "Passive"} :
        /\ Building
        /\ Len(wasm.element_section) < MaxData
        /\ wasm' = [wasm EXCEPT !.element_section =
                        Append(@, [kind |-> kind, index |-> 0, item |-> 0])]
        /\ UNCHANGED <<sink, outcome, trace, stackVars, emitVars, tableVars, runVars, sel>>

\* the start section names function 0
AddStart ==
    /\ Building
    /\ wasm.start_section = <<>>
    /\ space(wasm, "Func", Len(wasm.code_section)) > 0
    /\ wasm' = [wasm EXCEPT !.start_section = <<0>>]
    /\ UNCHANGED <<sink, outcome, trace, stackVars, emitVars, tableVars, runVars, sel>>

Last(list) == list[Len(list)]

OrderAddImport ==
    /\ AddImport
    /\ Len(wasm'.import_section) <= MaxEach
    /\ Last(wasm'.import_section).ty = "Global"

OrderAddLocal ==
    /\ AddLocal
    /\ wasm'.table_section <= MaxEach
    /\ wasm'.memory_section <= MaxEach
    /\ wasm'.global_section <= MaxEach

OrderAddElement ==
    /\ AddElement
    /\ Len(wasm'.element_section) <= MaxEach
    /\ Last(wasm'.element_section).kind = "Active"

OrderAddData ==
    /\ AddData
    /\ Len(wasm'.data_section) <= MaxEach
    /\ Last(wasm'.data_section).kind = "Active"

OrderAddFunc ==
    /\ AddPlainFunc
    /\ Len(wasm'.code_section) <= MaxEach

\* the one statement of the text written from the template t
IndexOf(t) == CHOOSE i \in 1..Len(sink.text) : sink.text[i].t = t

\* the do-blocks of run_init_code open before position p
OpenBlocks(p) ==
    LET from == IndexOf("local function run_init_code()") + 1
        body == SubSeq(sink.text, from, p - 1)
    IN  Len(SelectSeq(body, LAMBDA s : s.t = "do "))
        - Len(SelectSeq(body, LAMBDA s : s.t = "end "))

\* what executing a statement does to the instance, "" if nothing
Effect(s) ==
    IF s.t = ImportTemplate THEN "import"
    ELSE IF s.t = "{upper}[{index}] = { min, max, data }" THEN "table"
    ELSE IF s.t = "{upper}[{index}] = rt.allocator.new" THEN "memory"
    ELSE IF s.t = "{upper}[{index}] = { value =" THEN "global"
    ELSE IF s.t = "table.move(data, 1, #data, offset, target)" THEN "element"
    ELSE IF s.t = "rt.store.string(" THEN "data"
    ELSE IF s.t = "memory_at_{mem} = {upper}[{mem}]" THEN "bind"
    ELSE IF s.t = "{upper}[{start}]()" THEN "start"
    ELSE IF s.t = "return {" THEN "export"
    ELSE ""

\* the host calls the function the chunk returned
CallEntry ==
    /\ outcome = "Ok"
    /\ phase = "emit"
    /\ phase' = "entry"
    /\ pc' = IndexOf("return function(wasm)") + 1
    /\ UNCHANGED <<passes, jumps, jumped, moduleVars, stackVars, emitVars, tableVars, sel>>

\* one statement of the entry function or of run_init_code
StepEntry ==
    /\ phase \in {"entry", "init"}
    /\ LET s == sink.text[pc]
       IN  IF phase = "entry" /\ s.t = "run_init_code()"
           THEN /\ phase' = "init"
                /\ pc' = IndexOf("local function run_init_code()") + 1
                /\ trace' = trace
           ELSE IF phase = "init" /\ s.t = "end " /\ OpenBlocks(pc) = 0
           THEN /\ phase' = "entry"
                /\ pc' = IndexOf("run_init_code()") + 1
                /\ trace' = trace
           ELSE IF s.t = "} end "
           THEN /\ phase' = "returned"
                /\ pc' = pc
                /\ trace' = trace
           ELSE /\ phase' = phase
                /\ pc' = pc + 1
                /\ trace' = IF Effect(s) = "" THEN trace ELSE Append(trace, Effect(s))
    /\ UNCHANGED <<passes, jumps, jumped, wasm, sink, outcome, stackVars, emitVars, tableVars, sel>>

OrderNext ==
    \/ OrderAddImport
    \/ OrderAddLocal
    \/ OrderAddElement
    \/ OrderAddData
    \/ OrderAddFunc
    \/ AddStart
    \/ Translate
    \/ Transpile
    \/ CallEntry
    \/ StepEntry

\* the modules that are run export function 0
OrderInit ==
    /\ StackIdle
    /\ EmitIdle
    /\ TableIdle
    /\ RunIdle
    /\ sel = <<>>
    /\ wasm = [EmptyModule EXCEPT !.export_section =
                   <<[ty |-> "Func", name |-> 0, index |-> 0]>>]
    /\ sink = NewSink(0)
    /\ outcome = ""
    /\ trace = <<>>

SpecOrder == OrderInit /\ [][OrderNext]_vars

\* the place of an effect in the order of instantiation
Rank(e) ==
    IF e = "import" THEN 1
    ELSE IF e = "table" THEN 2
    ELSE IF e = "memory" THEN 3
    ELSE IF e = "global" THEN 4
    ELSE IF e = "element" THEN 5
    ELSE IF e = "data" THEN 6
    ELSE IF e = "bind" THEN 7
    ELSE IF e = "start" THEN 8
    ELSE 9

\* how many of the first n effects are e
Count(e, n) == Cardinality({i \in 1..n : trace[i] = e})

\* the text comes from Generator::transpile, which binds memories per function
Transpiled == sink.text # <<>> /\ sink.text[1].t = "local rt = require"

\* C15: the effects of the entry function occur in the order imports,
\* tables, memories, globals, element segments, data segments, memory
\* bindings, start function, export record; every import is wired before a
\* global initializer runs, every segment is copied before the start
\* function runs, the start function runs once if declared and never
\* otherwise, and on return each effect has happened once per entry.
C15_EntryOrder ==
    /\ \A i, j \in 1..Len(trace) : i < j => Rank(trace[i]) <= Rank(trace[j])
    /\ \A i \in 1..Len(trace) :
           /\ trace[i] = "global" => Count("import", i) = Len(wasm.import_section)
           /\ trace[i] = "start" =>
                  /\ Count("element", i) = Len(wasm.element_section)
                  /\ Count("data", i) = Len(wasm.data_section)
    /\ Count("start", Len(trace)) <= Len(wasm.start_section)
    /\ phase = "returned" =>
           /\ Count("import", Len(trace)) = Len(wasm.import_section)
           /\ Count("table", Len(trace)) = wasm.table_section
           /\ Count("memory", Len(trace)) = wasm.memory_section
           /\ Count("global", Len(trace)) = wasm.global_section
           /\ Count("element", Len(trace)) = Len(wasm.element_section)
           /\ Count("data", Len(trace)) = Len(wasm.data_section)
           /\ Count("bind", Len(trace)) =
                  IF Transpiled THEN 0
                  ELSE Cardinality(Extend(wasm.code_section, "mem", {}))
           /\ Count("start", Len(trace)) = Len(wasm.start_section)
           /\ Count("export", Len(trace)) = 1
           /\ Last(trace) = "export"

\* the entry function of a module with an entry in every section has
\* returned, each of the nine effects having happened
C15_Witness ==
    /\ phase = "returned"
    /\ ~Transpiled
    /\ {Rank(trace[i]) : i \in 1..Len(trace)} = 1..9

(***************************************************************************)
(* Localization of helpers and memories.                                   *)
(***************************************************************************)
\* a function body whose AST uses the helpers loc and the memories mem
AddFunc ==
    \E loc \in SUBSET (0..NumHelpers - 1), mem \in SUBSET (0..NumMemories - 1) :
        /\ Building
        /\ Len(wasm.code_section) < MaxFuncs
        /\ wasm' = [wasm EXCEPT !.code_section = Append(@, [loc |-> loc, mem |-> mem])]
        /\ UNCHANGED <<sink, outcome, trace, stackVars, emitVars, tableVars, runVars, sel>>

LocalizeNext ==
    \/ AddFunc
    \/ Translate
    \/ Transpile

SpecLocalize == ModuleInit /\ [][LocalizeNext]_vars

\* the positions of the text written from one of the templates
Positions(templates) == {i \in 1..Len(sink.text) : sink.text[i].t \in templates}

\* the local bindings of helpers and of memories, in the order written
HelperBindings ==
    SelectSeq(sink.text, LAMBDA s :
        s.t \in {"local {head}_{tail} = ", "local {a}_{b} = rt.{a}.{b} "})

MemoryBindings ==
    SelectSeq(sink.text, LAMBDA s :
        s.t \in {"local memory_at_{mem} ", "local memory_at_{v} = MEMORY_LIST[{v}]"})

\* where the function list starts: the first write of write_func_start
BodiesFrom ==
    IF Positions({"{upper}"}) = {} THEN Len(sink.text) + 1
    ELSE Least(Positions({"{upper}"}))

\* C16: every helper and every memory used by at least one function gets
\* exactly one local binding, however many functions use it, nothing
\* unused gets one, the bindings are in ascending order, and all of them
\* are written before the first function body.
C16_LocalizedOnce ==
    outcome = "Ok" =>
        /\ [i \in 1..Len(HelperBindings) |-> HelperBindings[i].a]
               = Ascending(Extend(wasm.code_section, "loc", {}))
        /\ [i \in 1..Len(MemoryBindings) |-> MemoryBindings[i].a]
               = Ascending(Extend(wasm.code_section, "mem", {}))
        /\ \A i \in Positions({"local {head}_{tail} = ", "local {a}_{b} = rt.{a}.{b} ",
                               "local memory_at_{mem} ",
                               "local memory_at_{v} = MEMORY_LIST[{v}]"}) :
               i < BodiesFrom

(***************************************************************************)
(* Two translations of one module.                                         *)
(***************************************************************************)
\* the orders in which n functions can be visited
Perms(n) == {p \in [1..n -> 1..n] : \A i, j \in 1..n : p[i] = p[j] => i = j}

\* a function whose AST uses some helpers and at most memory 0
DetAddFunc ==
    /\ AddFunc
    /\ Last(wasm'.code_section).mem \subseteq {0}

\* from_module_typed on the module, and a second translation of it that
\* visits the functions in another order and is handed the helpers and
\* memories of each function in another iteration order
TranslateTwice ==
    \E p \in Perms(Len(wasm.code_section)), downwards \in BOOLEAN :
        /\ Building
        /\ LET r == from_module_typed(wasm, Done(sink, "Ok"))
               other == [i \in 1..Len(wasm.code_section) |-> wasm.code_section[p[i]]]
               again == run(Done(NewSink(0), "Ok"),
                            write_localize_scanned(Scanned(other, "loc", downwards),
                                                   Scanned(other, "mem", downwards))
                            \o from_module_rest(wasm, mem_set_of(other)))
           IN  /\ sink' = r.sink
               /\ outcome' = r.res
               /\ trace' = again.sink.text
        /\ UNCHANGED <<wasm, stackVars, emitVars, tableVars, runVars, sel>>

TwiceNext ==
    \/ DetAddFunc
    \/ TranslateTwice

SpecTwice == ModuleInit /\ [][TwiceNext]_vars

LabelsNext ==
    \/ EnterForward
    \/ ExitForward
    \/ EnterBackward
    \/ ExitBackward
    \/ EnterIf
    \/ VisitElse
    \/ ExitIf
    \/ VisitBr
    \/ VisitBrIf

SpecLabels == EmitInit /\ [][LabelsNext]_vars

\* the label allocated by the K-th enclosing open scope, the innermost
\* being depth 0
LabelAt(K) == frames[Len(frames) - K].label

\* the branch tables of up to two entries over the open scopes
OpenTables ==
    {<<>>} \cup {<<a>> : a \in 0..Len(frames) - 1}
    \cup {<<a, b>> : a, b \in 0..Len(frames) - 1}

\* C18: the label stack holds the labels of the open scopes, outermost
\* first; each scope was given a label no scope had before; and a branch
\* of depth K jumps to the label of the K-th enclosing open scope, in br,
\* in br_if, and in every guard and the default of a br_table.
C18_LabelStack ==
    /\ v.label_list = [i \in 1..Len(frames) |-> frames[i].label]
    /\ v.num_label = Len(info)
    /\ \A i, j \in 1..Len(frames) : i < j => frames[i].label < frames[j].label
    /\ \A i \in 1..Len(frames) : frames[i].label < v.num_label
    /\ \A K \in 0..Len(frames) - 1 :
           /\ write_br_at(K, v) = <<Tok("goto", LabelAt(K), 0)>>
           /\ \A table \in OpenTables :
                  LET jumps_ == Jumps(br_table_visit(table, K, v))
                      ranges_ == condense_jump_table(table)
                  IN  /\ Len(jumps_) = Len(ranges_) + 1
                      /\ \A g \in 1..Len(ranges_) :
                             jumps_[g].a = LabelAt(table[ranges_[g][1] + 1])
                      /\ jumps_[Len(jumps_)].a = LabelAt(K)
    /\ (text # <<>> /\ text[Len(text)].t = "goto") =>
           \E K \in 0..Len(frames) - 1 : text[Len(text)].a = LabelAt(K)

\* a branch of depth 2 written inside three open scopes, the outermost a
\* Backward
C18_Witness ==
    /\ Len(frames) = 3
    /\ frames[1].kind = "Backward"
    /\ text[Len(text)] = Tok("goto", frames[1].label, 0)
    /\ frames[1].label # frames[3].label


(***************************************************************************)
(* The capacity of a Stack.                                                *)
(***************************************************************************)
\* Stack::pop_len: the last `n` slots are drained
pop_len(self, n) ==
    [self EXCEPT !.var_list = SubSeq(@, 1, len(self) - n)]

\* several values consumed at once: pop_len
BuildPopLen ==
    \E n \in 2..len(Top) :
        /\ scopes' = SetTop(pop_len(Top, n))
        /\ op' = Op("pop_len", n, 0, <<>>)
        /\ UNCHANGED <<last_set, emitVars, tableVars, runVars, sel, moduleVars>>

CapacityNext ==
    \/ BuildConst
    \/ BuildDrop
    \/ BuildPopLen
    \/ LeakAt
    \/ BuildBlock
    \/ BuildEnd

SpecCapacity == StackInit /\ [][CapacityNext]_vars

\* the Stacks that exist before and after a step, outermost first
Surviving == 1..(IF Len(scopes') < Len(scopes) THEN Len(scopes') ELSE Len(scopes))

\* the temporaries the step has written (leak_at) or pushed (push_temporary)
\* on the Stack it acted on
Stepped ==
    LET self == scopes'[Len(scopes')]
    IN  IF op'.name = "leak_at"
        THEN {op'.ret[i].var : i \in 1..Len(op'.ret)}
        ELSE IF op'.name = "push_temporary"
        THEN {self.var_list[i].data.n : i \in (len(self) - op'.a + 1)..len(self)}
        ELSE {}

\* the temporaries a Stack holds in its slots
Held(self) ==
    {self.var_list[i].data.n :
        i \in {j \in 1..len(self) : self.var_list[j].data.k = "GetTemporary"}}

\* C19: over any sequence of push, pop, pop_len, push_temporary and leak_at
\* the capacity of a Stack never decreases, and after a leak_at or a
\* push_temporary it is strictly greater than every temporary index that
\* operation has written or pushed on the Stack, so that the temporaries
\* 0 .. capacity - 1 cover every temporary the Stack holds
C19_CapacityCovers ==
    [][/\ \A i \in Surviving : scopes'[i].capacity >= scopes[i].capacity
       /\ \A var \in Stepped : var < scopes'[Len(scopes')].capacity
       /\ \A i \in 1..Len(scopes') : \A var \in Held(scopes'[i]) :
              var < scopes'[i].capacity]_vars

\* a leak_at in a nested Stack has written a temporary beyond the capacity
\* the Stack had, and the capacity has been raised to one past it
C19_Witness ==
    /\ op.name = "leak_at"
    /\ op.ret # <<>>
    /\ Top.previous > 0
    /\ op.ret[1].var >= 1
    /\ Top.capacity = op.ret[1].var + 1
    /\ \E i \in 1..len(Top) : is_temporary(Top.var_list[i], op.ret[1].var)


(***************************************************************************)
(* The direction of a branch alignment.                                    *)
(***************************************************************************)
\* values pushed and popped over nested scopes, branches taken from any of them
AlignNext ==
    \/ BuildConst
    \/ BuildDrop
    \/ BuildBlock
    \/ BuildEnd
    \/ BuildBr

SpecAlign == StackInit /\ [][AlignNext]_vars

\* the temporaries a copy of `al` in ascending index order has overwritten
\* before it reads its j-th source (j counts from 0)
Overwritten(al, j) == {al.new + i : i \in 0..j - 1}

\* C20: for a Stack reached from the root by split_last calls and a branch
\* to the current scope or an enclosing one (start <= previous) with
\* result_arity <= len, get_br_alignment returns a source range that does
\* not begin below the destination range, so an ascending copy never reads
\* a temporary it has already overwritten, overlapping ranges included
C20_SourceNotBelow ==
    op.name = "get_br_alignment" =>
        LET al == op.ret[1]
        IN  /\ op.a <= Top.previous
            /\ op.b <= len(Top)
            /\ al.old >= al.new
            /\ \A j \in 0..al.length - 1 : al.old + j \notin Overwritten(al, j)

\* a branch from a nested scope to an enclosing one whose source and
\* destination ranges overlap without coinciding
C20_Witness ==
    /\ op.name = "get_br_alignment"
    /\ Len(scopes) >= 2
    /\ op.b >= 2
    /\ op.a < Top.previous
    /\ op.ret[1].new < op.ret[1].old
    /\ op.ret[1].old < op.ret[1].new + op.ret[1].length


(***************************************************************************)
(* The block structure of the text of a branch table.                      *)
(***************************************************************************)
IsGuard(tok) == tok.t \in {"if ==", "if >= <="}

\* the Lua keyword the i-th write contributes once the writes are joined:
\* a guard written straight after "else" continues it as `elseif`, any
\* other guard opens an `if`; an "else" followed by the " " before the
\* default stays an `else`
Keyword(toks, i) ==
    IF IsGuard(toks[i])
    THEN IF i > 1 /\ toks[i - 1].t = "else" THEN "elseif" ELSE "if"
    ELSE IF toks[i].t = "else"
    THEN IF i < Len(toks) /\ IsGuard(toks[i + 1]) THEN "" ELSE "else"
    ELSE IF toks[i].t = "end" THEN "end"
    ELSE ""

Keywords(toks, word) == Cardinality({i \in 1..Len(toks) : Keyword(toks, i) = word})

\* C21: the text of every branch table, the empty one included, opens
\* exactly one conditional chain (one `if`, further guards as `elseif`,
\* the default as its `else`) and closes it with exactly one `end`
C21_BlockBalanced ==
    text # <<>> =>
        /\ Keywords(text, "if") = 1
        /\ Keywords(text, "elseif") = Len(ranges) - 1
        /\ Keywords(text, "else") = 1
        /\ Keywords(text, "end") = Keywords(text, "if")

\* the same for the tables that have at least one entry
C21_BalancedWhenGuarded ==
    (text # <<>> /\ br_table # <<>>) =>
        /\ Keywords(text, "if") = 1
        /\ Keywords(text, "elseif") = Len(ranges) - 1
        /\ Keywords(text, "else") = 1
        /\ Keywords(text, "end") = 1

\* a table of three runs has been emitted as one chain
C21_Witness ==
    /\ text # <<>>
    /\ Len(ranges) = 3
    /\ Keywords(text, "elseif") = 2

\* the empty table has been emitted: an `end` and no conditional
C21_EmptyTable ==
    /\ text # <<>>
    /\ br_table = <<>>
    /\ Keywords(text, "if") = 0
    /\ Keywords(text, "end") = 1

====
